---------------------------- MODULE Spec2Model ----------------------------
(***************************************************************************)
(* A model of the MarketAPI ingestion engine (src/marketwatch):            *)
(*   - the worker pool of worker.py (a queue.Queue drained by persistent   *)
(*     worker threads, tasks that enqueue further tasks, wait());          *)
(*   - the Redis store of redis.py (order records with a TTL, the          *)
(*     (region,type) membership sets, the region list);                    *)
(*   - the paged fetch client of api.py (Page objects, __fetch_paged).     *)
(* Each part has its own next-state relation and specification; all        *)
(* specifications start from the same initial state.                       *)
(***************************************************************************)
EXTENDS Integers, Sequences, FiniteSets, TLC

\* ------------------------------------------------------------------------
\* Bounds of the model
\* ------------------------------------------------------------------------

\* config 'pool' 'size': the number of worker threads of the pool
PoolSize == 2

\* the number of tasks ever put on the queue in one behaviour
MaxTasks == 3

\* the largest total page count (x-pages) a response reports
MaxPages == 3

\* the largest total page count of a resource whose payloads vary
MaxCachePages == 1

\* the number of distinct order ids
MaxOrders == 2

\* the number of distinct region ids
MaxRegions == 2

\* the seconds that pass in one step of the clock
TickSeconds == 600

Workers == 1..PoolSize

TaskIds == 1..MaxTasks

NoTask == [id |-> 0, kind |-> "None"]

VARIABLES
    \* ---- worker.py: WorkerPool --------------------------------------
    queue,              \* WorkerPool.__queue: the FIFO of pending tasks
    unfinished_tasks,   \* queue.Queue.unfinished_tasks (put: +1, task_done: -1)
    wpc,                \* the position of each worker thread in __process
    work,               \* __process's local `work` of each worker
    spc,                \* the position of the scheduler thread (enqueue / wait)
    nextId,             \* the id the next task put on the queue gets
    raised,             \* history: ids of the tasks whose call raised
    done,               \* history: ids of the tasks marked task_done()
    putInJoin,          \* history: ids put while the scheduler was in join()
    \* ---- api.py: RegionalAPI, one resource key of one page class ----
    cls,                \* the page class under study: "type" or "struct"
    access_token,       \* GlobalAPI.__access_token is set (non-empty)
    pages,              \* __order_pages[key] / __struct_pages[key]: list of Page
    fpc,                \* position of the __fetch_paged call: idle/loop/returned/raised
    callback,           \* __fetch_paged's `callback` is given (streaming mode)
    current_page,       \* __fetch_paged's local current_page
    num_errors,         \* __fetch_paged's local num_errors
    data_pages,         \* __fetch_paged's local data_pages
    cache_pages,        \* __fetch_paged's local cache_pages
    result,             \* what __fetch_paged returned: "pending", "lists" or "none"
    delivered,          \* history: the last (page, data, cache) handed on
    streak,             \* history: consecutive transient failures of current_page
    firstMax,           \* history: page count reported by the call's first page
    maxRequested,       \* history: the largest page number requested in the call
    limitAtRequest,     \* history: the page count in force at the last request
    lastStatus,         \* history: status of the call's last response (0: none)
    lastChanged,        \* history: per page, ids of its last changed fetch
    update_calls,       \* the store calls UpdateOrdersTask's callback made for
                        \* the page handed to it last
    streamed,           \* history: the pages the callback was called with in this call
    \* ---- redis.py: the Redis server and its clients ------------------
    db,                 \* the keys of the server: order records, sets, region list
    wr_pc,              \* position of the writing worker: idle/exec/done/raised
    wr_args,            \* the writer's call: operation, region, batch
    pipe,               \* the commands queued on the writer's pipeline
    rd_pc,              \* position of the query: idle/smembers/fetched/returned
    rd_args,            \* the reader's call: operation, region, type, system
    order_ids,          \* get_orders' local order_ids
    remove_ids,         \* get_orders' local remove_ids
    rd_result,          \* what the reader's call returned (orders or region ids)
    rd_from,            \* history: the order id each returned order was read from
    rd_seen,            \* history: the writes around the reader's call
    last_add            \* history: the add_orders whose transaction ran last
                        \* ("executed" until the call returns), as long as
                        \* no time has passed, nothing has changed its keys
                        \* and no query was running when it ran or returned

VARIABLES
    \* ---- api.py: the page lock of one resource class --------------------
    order_page_lock,    \* the worker that holds the lock (0: it is free)
    order_pages,        \* the Pages of one resource key, by their number field
    tpc,                \* position of each worker in __fetch_type_order_page
    page_number,        \* the page number each worker was called with
    order_page          \* the number field of the Page each worker got

VARIABLES
    \* ---- worker.py / stats.py: the workers' Stats and WorkerPool.wait's sum ------
    stats,              \* Worker.__stats of each worker: four lists of NUM_STATS counters
    total,              \* wait()'s local `total`
    sum_index,          \* the number of workers wait()'s loop has summed and reset
    logged,             \* the Stats that wait() handed to dump() last
    drained,            \* history: the sum of the workers' Stats when join() returned
    recorded,           \* history: the sum of the updates the workers' tasks made
    reported            \* history: the sum of the totals the wait() calls handed to dump()

VARIABLES
    \* ---- watcher.py: Watcher, with the pool as the scheduler thread sees it ------
    config,             \* the [job] options: regions, groups, index, orders, authenticate
    mpc,                \* position of the scheduler thread in watch() and in the job it runs
    phase,              \* "start": the initial runs of watch(); "poll": its polling loop
    todo,               \* the jobs the current phase or run_pending() still has to run
    pool_tasks,         \* the tasks enqueued on the pool and not finished yet
    global_token,       \* GlobalAPI.__access_token of Watcher.__global_api
    region_apis,        \* Watcher.__region_apis: region id -> RegionalAPI (token, Page)
    detached,           \* RegionalAPI objects dropped from the dict, still held by tasks
    universe_cached,    \* Watcher.__universe_cached
    group_cached,       \* Watcher.__group_cached
    refresh_failed,     \* history: the last __refresh_access ended in its except branch
    job_log,            \* history: the jobs run by watch() before its polling loop
    page_left,          \* history: per region, the Page state its last fetch left
    last_fetch,         \* history: the Page the last fetch used, and what was there before
    last_request,       \* history: the last authenticated request an order task sent
    expiry_writes,      \* history: per job, the writes of its cache expiry since its last run
    region_infos        \* the region ids whose info hash (ri:<id>) the store holds

VARIABLES
    \* ---- api.py: one GlobalAPI._fetch_unpaged call ------
    upc,                \* position of the _fetch_unpaged call: idle/loop/returned/raised
    u_auth,             \* its needs_auth argument
    u_errors,           \* its local num_errors
    u_data,             \* its local data, which it returns
    u_sent,             \* history: the network requests the call has sent
    u_last,             \* history: the status of the last response (0: none yet)
    u_blocked           \* history: an attempt of the call found no access token

VARIABLES
    \* ---- redis.py: the info hashes (ri:, si:, li:, mgi:) and a write to them
    hashes,             \* per info id, the stored hash: field name -> value
    h_pc,               \* where the write in progress is
    h_args,             \* the infos given to the write in progress
    h_pipe              \* the commands queued in the pipeline of the write in progress

VARIABLES
    \* ---- tasks.py: the ingestion cycles of one order page (UpdateOrdersTask)
    order_listing,      \* the order ids the remote API lists on the page now
    type_page,          \* the Page of the RegionalAPI: its etag (the listing it was sent for) and cache
    cycle_pc,           \* where the order task of the cycle is: idle/callback/after (the fetch)
    cycle_calls,        \* the store calls the callback is about to make for the page
    location_cache,     \* RegionalAPI.__location_cache: the orders whose location was looked up
    elapsed,            \* the seconds since the last cycle fetched the page
    kept,               \* history: the orders stored by add_orders and listed in every cycle since
    gone,               \* history: per order, the seconds since the first cycle that ended well
                        \* with its page fetched without it (-1: none since it was listed)
    location_infos,     \* UpdateOrdersTask.__call__: the list the callback appends what fetch_location_info returns to
    location_ids,       \* UpdateOrdersTask.__call__: the list the callback appends the location ids to
    location_hashes,    \* the store: the info hash of every location
    region_locations,   \* the store: the list of the location ids of the region
    task_end            \* how the order task of the last cycle ended: none/returned/raised

VARIABLES
    \* ---- api.py: the REQUEST counters of the worker that makes a paged fetch call
    req_stats           \* the updates of Stats.REQUEST since the call began: total, changed, failure, and the runtime updates (timed)

poolVars == <<queue, unfinished_tasks, wpc, work, spc, nextId,
              raised, done, putInJoin>>

fetchVars == <<cls, access_token, pages, fpc, callback, current_page,
               num_errors, data_pages, cache_pages, result, delivered,
               streak, firstMax, maxRequested, limitAtRequest, lastStatus,
               lastChanged,
               update_calls, streamed>>

storeVars == <<db, wr_pc, wr_args, pipe, rd_pc, rd_args, order_ids,
               remove_ids, rd_result, rd_from, rd_seen, last_add>>

lockVars == <<order_page_lock, order_pages, tpc, page_number, order_page>>

statVars == <<stats, total, sum_index, logged, drained, recorded, reported>>

watchVars == <<config, mpc, phase, todo, pool_tasks, global_token, region_apis, detached, universe_cached, group_cached, refresh_failed, job_log, page_left, last_fetch, last_request, expiry_writes, region_infos>>

unpagedVars == <<upc, u_auth, u_errors, u_data, u_sent, u_last, u_blocked>>

hashVars == <<hashes, h_pc, h_args, h_pipe>>

ingestVars == <<order_listing, type_page, cycle_pc, cycle_calls, location_cache, elapsed, kept, gone,
                location_infos, location_ids, location_hashes, region_locations, task_end>>

\* the lists and the store keys of the locations
locationVars == <<location_infos, location_ids, location_hashes, region_locations>>

locationKeys == <<location_hashes, region_locations>>

fstatVars == <<req_stats>>

vars == <<poolVars, fetchVars, storeVars, lockVars, statVars, watchVars, unpagedVars, hashVars, ingestVars, fstatVars>>

\* what the steps of one part of the program leave alone
exceptPool == <<fetchVars, storeVars, lockVars, statVars, watchVars, unpagedVars, hashVars, ingestVars, fstatVars>>

exceptFetch == <<poolVars, storeVars, lockVars, statVars, watchVars, unpagedVars, hashVars, ingestVars, fstatVars>>

exceptStore == <<poolVars, fetchVars, lockVars, statVars, watchVars, unpagedVars, hashVars, ingestVars, fstatVars>>

exceptLock == <<poolVars, fetchVars, storeVars, statVars, watchVars, unpagedVars, hashVars, ingestVars, fstatVars>>

\* (the steps of wait()'s sum move the scheduler thread too)
exceptStats == <<fetchVars, storeVars, lockVars, watchVars, unpagedVars, hashVars, ingestVars, fstatVars>>

\* (the watcher's tasks write the region list of the store)
exceptWatch == <<poolVars, fetchVars, lockVars, statVars, unpagedVars, hashVars, ingestVars, fstatVars>>

\* (an unpaged call reads the access token of the fetch client)
exceptUnpaged == <<poolVars, storeVars, lockVars, statVars, watchVars, hashVars, ingestVars, fstatVars>>

\* everything but the variables of hashVars
exceptHash == <<poolVars, fetchVars, storeVars, lockVars, statVars, watchVars, unpagedVars, ingestVars, fstatVars>>

\* (the order task of a cycle writes the order keys of the store)
exceptIngest == <<poolVars, fetchVars, lockVars, statVars, watchVars, unpagedVars, hashVars, fstatVars>>

\* (a counted fetch call moves the fetch client and the worker's counters)
exceptFetchStats == <<poolVars, storeVars, lockVars, statVars, watchVars, unpagedVars, hashVars, ingestVars>>

\* history read off the state: the ids of the tasks put on the queue so far
put == 1..(nextId - 1)

\* history read off the state: the ids of the tasks whose call has ended
\* (returned or raised): those marked done and those about to be
ran == done \cup {work[w].id : w \in {x \in DOMAIN wpc : wpc[x] = "task_done"}}

\* ------------------------------------------------------------------------
\* worker.py / tasks.py: the worker pool
\* ------------------------------------------------------------------------

\* The kinds of task of tasks.py that the scheduler itself enqueues
\* (watcher.py: __update_universe, __update_groups, __update_orders).
RootKinds == {"UpdateRegions", "UpdateGroups", "UpdateOrders"}

\* tasks.py: the kind of task a running task enqueues ("None": it enqueues
\* nothing).  UpdateRegionsTask enqueues an UpdateRegionInfoTask per chunk of
\* region ids, that one an UpdateRegionSystemsTask per region, that one an
\* UpdateSystemInfoTask; UpdateGroupsTask an UpdateGroupInfoTask per chunk.
ChildKind(kind) ==
    CASE kind = "UpdateRegions"       -> "UpdateRegionInfo"
      [] kind = "UpdateRegionInfo"    -> "UpdateRegionSystems"
      [] kind = "UpdateRegionSystems" -> "UpdateSystemInfo"
      [] kind = "UpdateGroups"        -> "UpdateGroupInfo"
      [] OTHER                        -> "None"

\* queue.Queue.put as used by WorkerPool.enqueue: append, unfinished_tasks += 1
QueuePut(kind) ==
    /\ nextId <= MaxTasks
    /\ queue' = Append(queue, [id |-> nextId, kind |-> kind])
    /\ unfinished_tasks' = unfinished_tasks + 1
    /\ putInJoin' = IF spc = "join" THEN putInJoin \cup {nextId} ELSE putInJoin
    /\ nextId' = nextId + 1

\* watcher.py: the scheduler thread enqueues a task (a job firing)
SchedEnqueue ==
    /\ spc = "idle"
    /\ \E kind \in RootKinds : QueuePut(kind)
    /\ UNCHANGED <<wpc, work, spc, raised, done>>

\* WorkerPool.wait: the scheduler thread enters queue.join()
WaitBegin ==
    /\ spc = "idle"
    /\ spc' = "join"
    /\ UNCHANGED <<queue, unfinished_tasks, wpc, work, nextId,
                   raised, done, putInJoin>>

\* (mutation of JoinReady) wait() polls for an empty queue instead of join()
JoinReadyQueueEmpty == queue = << >>

\* queue.Queue.join: blocks while unfinished_tasks is not zero
JoinReady == unfinished_tasks = 0

\* WorkerPool.wait: join() returns
JoinReturn ==
    /\ spc = "join"
    /\ JoinReady
    /\ spc' = "joined"
    /\ UNCHANGED <<queue, unfinished_tasks, wpc, work, nextId,
                   raised, done, putInJoin>>

\* WorkerPool.wait: the stats are summed, reset and dumped; wait() returns
WaitReturn ==
    /\ spc = "joined"
    /\ spc' = "idle"
    /\ putInJoin' = {}
    /\ UNCHANGED <<queue, unfinished_tasks, wpc, work, nextId,
                   raised, done>>

\* (mutation of WorkerGet) get() hands out the head of the queue and leaves
\* it there
WorkerGetKeepsHead(w) ==
    /\ wpc[w] = "get"
    /\ queue # << >>
    /\ work' = [work EXCEPT ![w] = Head(queue)]
    /\ wpc' = [wpc EXCEPT ![w] = "work"]
    /\ UNCHANGED <<queue, unfinished_tasks, spc, nextId, raised, done,
                   putInJoin>>

\* WorkerPool.__process: work = pool.__queue.get()
WorkerGet(w) ==
    /\ wpc[w] = "get"
    /\ queue # << >>
    /\ work' = [work EXCEPT ![w] = Head(queue)]
    /\ queue' = Tail(queue)
    /\ wpc' = [wpc EXCEPT ![w] = "work"]
    /\ UNCHANGED <<unfinished_tasks, spc, nextId, raised, done,
                   putInJoin>>

\* a running task calls pool.enqueue(...) (tasks.py lines 87, 118, 147, 198)
TaskEnqueue(w) ==
    /\ wpc[w] = "work"
    /\ ChildKind(work[w].kind) # "None"
    /\ QueuePut(ChildKind(work[w].kind))
    /\ UNCHANGED <<wpc, work, spc, raised, done>>

\* WorkerPool.__process: work(pool, worker) returns
TaskReturn(w) ==
    /\ wpc[w] = "work"
    /\ wpc' = [wpc EXCEPT ![w] = "task_done"]
    /\ UNCHANGED <<queue, unfinished_tasks, work, spc, nextId, raised,
                   done, putInJoin>>

\* (mutation of TaskRaise) no try/except around the call: the exception ends
\* the worker thread before task_done()
TaskRaiseKillsWorker(w) ==
    /\ wpc[w] = "work"
    /\ wpc' = [wpc EXCEPT ![w] = "dead"]
    /\ raised' = raised \cup {work[w].id}
    /\ UNCHANGED <<queue, unfinished_tasks, work, spc, nextId, done,
                   putInJoin>>

\* WorkerPool.__process: work(pool, worker) raises; `except Exception` logs
\* it and control reaches task_done()
TaskRaise(w) ==
    /\ wpc[w] = "work"
    /\ wpc' = [wpc EXCEPT ![w] = "task_done"]
    /\ raised' = raised \cup {work[w].id}
    /\ UNCHANGED <<queue, unfinished_tasks, work, spc, nextId, done,
                   putInJoin>>

\* (mutation of TaskDone) the loop starts over without task_done()
TaskDoneUnmarked(w) ==
    /\ wpc[w] = "task_done"
    /\ done' = done \cup {work[w].id}
    /\ work' = [work EXCEPT ![w] = NoTask]
    /\ wpc' = [wpc EXCEPT ![w] = "get"]
    /\ UNCHANGED <<queue, unfinished_tasks, spc, nextId, raised, putInJoin>>

\* WorkerPool.__process: pool.__queue.task_done(), then the loop starts over
TaskDone(w) ==
    /\ wpc[w] = "task_done"
    /\ unfinished_tasks' = unfinished_tasks - 1
    /\ done' = done \cup {work[w].id}
    /\ work' = [work EXCEPT ![w] = NoTask]
    /\ wpc' = [wpc EXCEPT ![w] = "get"]
    /\ UNCHANGED <<queue, spc, nextId, raised, putInJoin>>

\* the kinds of task whose runs differ for the pool: one that starts the
\* longest chain of enqueued tasks and one that enqueues nothing
FanOutKinds == {"UpdateRegions", "UpdateOrders"}

\* watcher.py: the scheduler thread enqueues a task of one of these kinds
SchedEnqueueFanOut ==
    /\ spc = "idle"
    /\ \E kind \in FanOutKinds : QueuePut(kind)
    /\ UNCHANGED <<wpc, work, spc, raised, done>>

InitPool ==
    /\ queue = << >>
    /\ unfinished_tasks = 0
    /\ wpc = [w \in Workers |-> "get"]
    /\ work = [w \in Workers |-> NoTask]
    /\ spc = "idle"
    /\ nextId = 1
    /\ raised = {}
    /\ done = {}
    /\ putInJoin = {}

NextPool ==
    /\ UNCHANGED exceptPool
    /\ \/ SchedEnqueue
       \/ WaitBegin
       \/ JoinReturn
       \/ WaitReturn
       \/ \E w \in Workers : WorkerGet(w)
       \/ \E w \in Workers : TaskEnqueue(w)
       \/ \E w \in Workers : TaskReturn(w)
       \/ \E w \in Workers : TaskRaise(w)
       \/ \E w \in Workers : TaskDone(w)

NextPoolFair ==
    /\ UNCHANGED exceptPool
    /\ \/ SchedEnqueueFanOut
       \/ WaitBegin
       \/ JoinReturn
       \/ WaitReturn
       \/ \E w \in Workers : WorkerGet(w)
       \/ \E w \in Workers : TaskEnqueue(w)
       \/ \E w \in Workers : TaskReturn(w)
       \/ \E w \in Workers : TaskRaise(w)
       \/ \E w \in Workers : TaskDone(w)


\* ------------------------------------------------------------------------
\* api.py: the paged fetch client
\* ------------------------------------------------------------------------

\* GlobalAPI._ERROR_RETRIES: the number of 500 series error retries
ERROR_RETRIES == 3

OrderIds == 1..MaxOrders

\* Python's None, and a list of order ids (the order of a list is dropped:
\* a payload or a cache is modelled by the set of the order ids it lists)
None == [none |-> TRUE, ids |-> {}]

List(ids) == [none |-> FALSE, ids |-> ids]

\* Python truthiness of an optional list: not None and not empty
Truthy(v) == ~v.none /\ v.ids # {}

\* no page has been handed to the caller in this call yet
NoDelivery ==
    [page |-> 0, data |-> None, cache |-> None, status |-> 0, max_pages |-> 0]

\* RegionalAPI.Page.__init__: a new Page has no etag and no cache
Page(number) == [number |-> number, etag |-> "", cache |-> None]

ETags == {"", "e1"}

ClientStatuses == {400, 404, 499}

ServerStatuses == {500, 503}

\* The responses of the remote API to one request: a status, the x-pages
\* header (0: the header is absent), the etag header ("": absent) and, for
\* a 200, the order ids of the payload.
ResponsesWith(counts, etags, bodies) ==
    [status : {200}, xpages : counts, etag : etags, body : bodies]
    \cup [status : {304}, xpages : counts, etag : etags, body : {{}}]
    \cup [status : ClientStatuses \cup ServerStatuses, xpages : {0},
          etag : etags, body : {{}}]

\* The responses of a resource of up to MaxPages pages whose pages each list
\* every order id, sent with an etag.
PagingResponses == ResponsesWith(0..MaxPages, {"e1"}, {OrderIds})

\* The responses of a resource of up to MaxCachePages pages whose payload
\* and etag vary from one request to the next.
CacheResponses == ResponsesWith(0..MaxCachePages, ETags, SUBSET OrderIds)

\* The responses of a resource of up to MaxCachePages pages whose etag
\* varies from one request to the next (each page lists every order id).
TagResponses == ResponsesWith(0..MaxCachePages, ETags, {OrderIds})

\* fetch_structure_orders passes needs_auth = True, fetch_type_orders False
NeedsAuth == cls = "struct"

\* (mutation of FetchApiEtag) the etag header of every response is returned
FetchApiEtagOfHeader(resp) == resp.etag

\* GlobalAPI._fetch_api: the etag it returns for a response: "" when
\* raise_for_status() raised, the etag header otherwise
FetchApiEtag(resp) == IF resp.status >= 400 THEN "" ELSE resp.etag

\* (mutation of FetchApiPage) a server error is given the page count 1
FetchApiPageCountsErrors(resp) ==
    IF resp.status >= 400
    THEN [max_pages |-> IF resp.status >= 500 THEN 1 ELSE -1,
          data |-> None, status |-> resp.status]
    ELSE LET max_pages == IF resp.xpages # 0 THEN resp.xpages ELSE 1
         IN  IF resp.status = 304
             THEN [max_pages |-> max_pages, data |-> None, status |-> 304]
             ELSE [max_pages |-> max_pages, data |-> List(resp.body),
                   status |-> resp.status]

\* RegionalAPI.__fetch_api_page: (max_pages, data, status) for a response
FetchApiPage(resp) ==
    IF resp.status >= 400
    THEN [max_pages |-> -1, data |-> None, status |-> resp.status]
    ELSE LET max_pages == IF resp.xpages # 0 THEN resp.xpages ELSE 1
         IN  IF resp.status = 304
             THEN [max_pages |-> max_pages, data |-> None, status |-> 304]
             ELSE [max_pages |-> max_pages, data |-> List(resp.body),
                   status |-> resp.status]

\* (mutation of PageCacheAfter) the cache is left alone on a changed page
PageCacheNeverUpdated(cache, orders) == cache

\* __fetch_type_order_page / __fetch_struct_order_page: the Page's cache once
\* the fetch returned `orders`: the ids of the orders when `orders` is truthy
PageCacheAfter(cache, orders) ==
    IF Truthy(orders) THEN List(orders.ids) ELSE cache

\* __fetch_type_order_page / __fetch_struct_order_page: the cached ids they
\* return: None with truthy orders, the Page's cache otherwise
PageCacheReturned(cache, orders) ==
    IF Truthy(orders) THEN None ELSE cache

\* (mutation of IsClientError) no status is treated as terminal
IsClientErrorNever(status) == FALSE

\* __fetch_paged: `status >= 400 and status < 500`
IsClientError(status) == status >= 400 /\ status < 500

\* (mutation of RetriesExhausted) two more retries are allowed
RetriesExhaustedLate(n) == n >= ERROR_RETRIES + 2

\* __fetch_paged: `num_errors >= self._ERROR_RETRIES`
RetriesExhausted(n) == n >= ERROR_RETRIES

\* (mutation of LastPage) the loop runs up to the largest page count there is
LastPageIgnoresResponse(page, max_pages) == page >= MaxPages + 1

\* __fetch_paged: `current_page >= max_pages`
LastPage(page, max_pages) == page >= max_pages

\* (mutation of NextPage) the page number is not advanced
NextPageStays(page) == page

\* __fetch_paged: `current_page += 1` after a page that was not the last
NextPage(page) == page + 1

NoCalls == [add_orders |-> << >>, refresh_orders |-> << >>]

\* tasks.py, UpdateOrdersTask.__call__.__update (order_page is page_orders here):
\* add_orders(order_page) if order_page is truthy, then
\* refresh_orders(order_cache) if order_cache is truthy; each call is noted
\* with the order ids it is given
UpdateCalls(page_orders, order_cache) ==
    [add_orders     |-> IF Truthy(page_orders)
                        THEN << page_orders.ids >> ELSE << >>,
     refresh_orders |-> IF Truthy(order_cache)
                        THEN << order_cache.ids >> ELSE << >>]

\* __fetch_type_order_page: the Page looked up or created under the page lock
\* (`number > len(pages)`: a new Page is inserted at number-1)
PagesWith(number) ==
    IF number > Len(pages) THEN Append(pages, Page(number)) ELSE pages

\* fetch_type_orders / fetch_structure_orders: a call of __fetch_paged begins
FetchCall ==
    /\ fpc = "idle"
    /\ \E cb \in BOOLEAN : callback' = cb
    /\ fpc' = "loop"
    /\ current_page' = 1
    /\ num_errors' = 0
    /\ data_pages' = << >>
    /\ cache_pages' = << >>
    /\ result' = "pending"
    /\ delivered' = NoDelivery
    /\ streak' = 0
    /\ firstMax' = 0
    /\ maxRequested' = 0
    /\ limitAtRequest' = 0
    /\ lastStatus' = 0
    /\ update_calls' = NoCalls
    /\ streamed' = {}
    /\ UNCHANGED <<cls, access_token, pages, lastChanged>>

\* One iteration of the loop of __fetch_paged for a response `resp` to the
\* request of page current_page: the page function (Page lookup, request,
\* etag and cache update), then the status / max_pages / callback branches.
LoopBody(resp) ==
    LET withPage == PagesWith(current_page)
        page     == withPage[current_page]
        got      == FetchApiPage(resp)
        cache    == PageCacheAfter(page.cache, got.data)
        fwd      == PageCacheReturned(page.cache, got.data)
        page2    == [page EXCEPT !.etag = FetchApiEtag(resp), !.cache = cache]
    IN
    /\ fpc = "loop"
    /\ pages' = [withPage EXCEPT ![current_page] = page2]
    /\ maxRequested' = IF current_page > maxRequested
                       THEN current_page ELSE maxRequested
    /\ limitAtRequest' = delivered.max_pages
    /\ lastStatus' = resp.status
    /\ lastChanged' =
          IF resp.status = 200
          THEN [lastChanged EXCEPT ![current_page] = List(resp.body)]
          ELSE lastChanged
    /\ IF IsClientError(got.status)
       THEN \* return (None, None)
            /\ fpc' = "returned"
            /\ result' = "none"
            /\ streak' = 0
            /\ UNCHANGED <<current_page, num_errors, data_pages, cache_pages,
                           delivered, firstMax, update_calls, streamed>>
       ELSE IF got.max_pages < 1
       THEN /\ streak' = streak + 1
            /\ IF RetriesExhausted(num_errors)
               THEN \* break
                    /\ fpc' = "returned"
                    /\ result' = "lists"
                    /\ UNCHANGED num_errors
               ELSE \* num_errors += 1; sleep; continue
                    /\ num_errors' = num_errors + 1
                    /\ UNCHANGED <<fpc, result>>
            /\ UNCHANGED <<current_page, data_pages, cache_pages, delivered,
                           firstMax, update_calls, streamed>>
       ELSE /\ streak' = 0
            /\ firstMax' = IF firstMax = 0 THEN got.max_pages ELSE firstMax
            /\ delivered' = [page |-> current_page, data |-> got.data,
                             cache |-> fwd, status |-> got.status,
                             max_pages |-> got.max_pages]
            /\ update_calls' = IF callback THEN UpdateCalls(got.data, fwd)
                               ELSE NoCalls
            /\ streamed' = IF callback THEN streamed \cup {current_page}
                           ELSE streamed
            /\ IF callback
               THEN UNCHANGED <<data_pages, cache_pages>>
               ELSE /\ data_pages' = IF Truthy(got.data)
                                     THEN Append(data_pages, got.data.ids)
                                     ELSE data_pages
                    /\ cache_pages' = IF Truthy(fwd)
                                      THEN Append(cache_pages, fwd.ids)
                                      ELSE cache_pages
            /\ IF LastPage(current_page, got.max_pages)
               THEN /\ fpc' = "returned"
                    /\ result' = "lists"
                    /\ UNCHANGED <<current_page, num_errors>>
               ELSE /\ current_page' = NextPage(current_page)
                    /\ UNCHANGED <<fpc, result, num_errors>>
    /\ UNCHANGED <<cls, access_token, callback>>

\* GlobalAPI._fetch_api sends the request only if the endpoint needs no
\* authentication or an access token is set
RequestSent == ~NeedsAuth \/ access_token

\* a request of __fetch_paged answered 200 with a payload
PageChanged(R) ==
    /\ RequestSent
    /\ \E resp \in R : resp.status = 200 /\ LoopBody(resp)

\* a request of __fetch_paged answered 304 (not modified)
PageUnchanged(R) ==
    /\ RequestSent
    /\ \E resp \in R : resp.status = 304 /\ LoopBody(resp)

\* a request of __fetch_paged answered with a client error (400-499)
PageClientError(R) ==
    /\ RequestSent
    /\ \E resp \in R : resp.status \in ClientStatuses /\ LoopBody(resp)

\* a request of __fetch_paged answered with a server error (>= 500)
PageServerError(R) ==
    /\ RequestSent
    /\ \E resp \in R : resp.status \in ServerStatuses /\ LoopBody(resp)

\* _fetch_api returns (None, "") without a request (no access token):
\* __fetch_api_page stores the empty etag and then reads
\* `request.status_code` of None (line 586), which raises AttributeError
PageNoAuth ==
    /\ fpc = "loop"
    /\ ~RequestSent
    /\ pages' = [PagesWith(current_page) EXCEPT ![current_page].etag = ""]
    /\ fpc' = "raised"
    /\ UNCHANGED <<cls, access_token, callback, current_page, num_errors,
                   data_pages, cache_pages, result, delivered, streak,
                   firstMax, maxRequested, limitAtRequest, lastStatus,
                   lastChanged, update_calls, streamed>>

\* the caller takes the result (or the exception) of the call; the locals
\* of the call are gone
FetchEnd ==
    /\ fpc \in {"returned", "raised"}
    /\ fpc' = "idle"
    /\ callback' = FALSE
    /\ current_page' = 1
    /\ num_errors' = 0
    /\ data_pages' = << >>
    /\ cache_pages' = << >>
    /\ result' = "pending"
    /\ delivered' = NoDelivery
    /\ streak' = 0
    /\ firstMax' = 0
    /\ maxRequested' = 0
    /\ limitAtRequest' = 0
    /\ lastStatus' = 0
    /\ update_calls' = NoCalls
    /\ streamed' = {}
    /\ UNCHANGED <<cls, access_token, pages, lastChanged>>

\* GlobalAPI.set_access: the watcher sets or clears the access token (the
\* token is read by the authenticated endpoints only)
SetAccess ==
    /\ fpc = "idle"
    /\ NeedsAuth
    /\ \E tok \in BOOLEAN : access_token' = tok
    /\ UNCHANGED <<cls, pages, fpc, callback, current_page,
                   num_errors, data_pages, cache_pages, result, delivered,
                   streak, firstMax, maxRequested, limitAtRequest, lastStatus,
                   lastChanged, update_calls, streamed>>

InitFetch ==
    /\ cls \in {"type", "struct"}
    /\ access_token = FALSE
    /\ pages = << >>
    /\ fpc = "idle"
    /\ callback = FALSE
    /\ current_page = 1
    /\ num_errors = 0
    /\ data_pages = << >>
    /\ cache_pages = << >>
    /\ result = "pending"
    /\ delivered = NoDelivery
    /\ streak = 0
    /\ firstMax = 0
    /\ maxRequested = 0
    /\ limitAtRequest = 0
    /\ lastStatus = 0
    /\ lastChanged = [k \in 1..MaxPages |-> None]
    /\ update_calls = NoCalls
    /\ streamed = {}

\* fetch_type_orders on a resource of several pages
NextFetch ==
    /\ UNCHANGED exceptFetch
    /\ \/ FetchCall
       \/ PageChanged(PagingResponses)
       \/ PageUnchanged(PagingResponses)
       \/ PageClientError(PagingResponses)
       \/ PageServerError(PagingResponses)
       \/ FetchEnd

\* fetch_type_orders on a resource whose payloads vary, cycle after cycle
NextPageCache ==
    /\ UNCHANGED exceptFetch
    /\ \/ FetchCall
       \/ PageChanged(CacheResponses)
       \/ PageUnchanged(CacheResponses)
       \/ PageClientError(CacheResponses)
       \/ PageServerError(CacheResponses)
       \/ FetchEnd

\* fetch_structure_orders (an authenticated endpoint), with the access
\* token set and cleared between the calls
NextFetchAuth ==
    /\ UNCHANGED exceptFetch
    /\ \/ FetchCall
       \/ PageChanged(CacheResponses)
       \/ PageUnchanged(CacheResponses)
       \/ PageClientError(CacheResponses)
       \/ PageServerError(CacheResponses)
       \/ PageNoAuth
       \/ FetchEnd
       \/ SetAccess

\* fetch_structure_orders, with the access token set and cleared between
\* the calls, on a resource whose etags vary
NextFetchTags ==
    /\ UNCHANGED exceptFetch
    /\ \/ FetchCall
       \/ PageChanged(TagResponses)
       \/ PageUnchanged(TagResponses)
       \/ PageClientError(TagResponses)
       \/ PageServerError(TagResponses)
       \/ PageNoAuth
       \/ FetchEnd
       \/ SetAccess

\* ------------------------------------------------------------------------
\* api.py: the Stats updates of a paged fetch call
\* ------------------------------------------------------------------------

NoRequests == [total |-> 0, changed |-> 0, failure |-> 0, timed |-> 0]

\* __fetch_api_page: the update of Stats.REQUEST for a response:
\* total=1, failure=1 for a status of 400 and above; total=1 for a 304;
\* total=1, changed=1 otherwise
PageRequestCounted(st, resp) ==
    [st EXCEPT !.total = @ + 1,
               !.failure = IF resp.status >= 400 THEN @ + 1 ELSE @,
               !.changed = IF resp.status < 400 /\ resp.status # 304
                           THEN @ + 1 ELSE @]

\* __fetch_paged: `worker.stats().update(REQUEST, runtime=timer.elapsed())`
\* follows the loop; it is reached by the two `break`s, not by the
\* `return (None, None)` inside the loop
RuntimeCounted(st, ended, res) ==
    IF ended /\ res = "lists" THEN [st EXCEPT !.timed = @ + 1] ELSE st

\* a call of __fetch_paged begins: the counters of this call start at zero
FetchCallCounted ==
    /\ FetchCall
    /\ req_stats' = NoRequests

\* one request of the call is answered with one of the given statuses; the
\* request is counted, and the runtime when the loop ends
PageCounted(R, statuses) ==
    /\ RequestSent
    /\ \E resp \in R :
          /\ resp.status \in statuses
          /\ LoopBody(resp)
          /\ req_stats' = RuntimeCounted(PageRequestCounted(req_stats, resp),
                                         fpc' = "returned", result')

\* no request is sent for want of a token: `not request` holds for None,
\* total=1, failure=1 is counted, and `request.status_code` raises
PageNoAuthCounted ==
    /\ PageNoAuth
    /\ req_stats' = [req_stats EXCEPT !.total = @ + 1, !.failure = @ + 1]

InitFetchStats == req_stats = NoRequests

\* the paged fetch calls of a worker with the updates of its Stats
NextFetchCounted ==
    /\ UNCHANGED exceptFetchStats
    /\ \/ FetchCallCounted
       \/ PageCounted(TagResponses, {200})
       \/ PageCounted(TagResponses, {304})
       \/ PageCounted(TagResponses, ClientStatuses)
       \/ PageCounted(TagResponses, ServerStatuses)
       \/ PageNoAuthCounted
       \/ FetchEnd /\ UNCHANGED req_stats
       \/ SetAccess /\ UNCHANGED req_stats

\* ------------------------------------------------------------------------
\* redis.py: the store
\* ------------------------------------------------------------------------

\* RedisDatabase.__MARKET_ORDER_TTL: the key expiry in seconds of an order
MARKET_ORDER_TTL == 1200

RegionIds == 1..MaxRegions

TypeIds == {34, 35}

SystemIds == {1, 2}

\* The orders of the remote API: an order id denotes one order, of one item
\* type, in one system of one region; its remaining volume changes.
TypeOf(id) == IF id <= 2 THEN 34 ELSE 35

SystemOf(id) == 1 + (id % 2)

RegionOf(id) == 1

Volumes == {5, 10}

\* an order of a page of the remote API, as the dictionary add_orders gets
OrderDict(id, vol) ==
    [order_id |-> id, type_id |-> TypeOf(id), system_id |-> SystemOf(id),
     location_id |-> 60000000 + id, is_buy_order |-> (id % 2),
     min_volume |-> 1, volume_total |-> 10, volume_remain |-> vol,
     price |-> 5, range |-> 3, issued |-> 1000, duration |-> 90]

\* RedisDatabase.__ORDER_FIELDS: (key of the API, name in the store, type)
ORDER_FIELDS ==
    << [key |-> "system_id",     name |-> "sid",    type |-> "int"],
       [key |-> "location_id",   name |-> "lid",    type |-> "int"],
       [key |-> "is_buy_order",  name |-> "buy",    type |-> "int"],
       [key |-> "min_volume",    name |-> "minvol", type |-> "int"],
       [key |-> "volume_total",  name |-> "totvol", type |-> "int"],
       [key |-> "volume_remain", name |-> "remvol", type |-> "int"],
       [key |-> "price",         name |-> "price",  type |-> "float"],
       [key |-> "range",         name |-> "range",  type |-> "str"] >>

\* RedisDatabase.__extract_fields followed by __encode_fields: the values of
\* the fields of field_spec that field_dict has, in the order of field_spec.
\* The ':'-joined string is modelled by the list of its parts, and a part by
\* the number it is written from and parsed to (a bool is the int 0 or 1).
RECURSIVE ExtractFields(_, _)
ExtractFields(field_spec, field_dict) ==
    IF field_spec = << >> THEN << >>
    ELSE LET f == Head(field_spec)
         IN  (IF f.key \in DOMAIN field_dict
              THEN << field_dict[f.key] >> ELSE << >>)
             \o ExtractFields(Tail(field_spec), field_dict)

\* RedisDatabase.__encode_order: the fields, then the expiry time (issued
\* plus duration days, in seconds)
EncodeOrder(order) ==
    Append(ExtractFields(ORDER_FIELDS, order),
           order.issued + order.duration * 86400)

\* (mutation of DecodeIndex) the fields are read back in reverse order
DecodeIndexReversed(i) == Len(ORDER_FIELDS) + 1 - i

\* RedisDatabase.__decode_fields: the i-th field of field_spec is read from
\* the i-th component of the string
DecodeIndex(i) == i

\* RedisDatabase.__decode_order: the fields by name, read by position, and
\* the expiry that follows them
DecodeOrder(string) ==
    [n \in {ORDER_FIELDS[i].name : i \in 1..Len(ORDER_FIELDS)} \cup {"expiry"} |->
        IF n = "expiry" THEN string[Len(ORDER_FIELDS) + 1]
        ELSE LET i == CHOOSE j \in 1..Len(ORDER_FIELDS) : ORDER_FIELDS[j].name = n
             IN  string[DecodeIndex(i)]]

\* a key that does not exist (GET gives nil, TTL gives -2)
NoKey == [present |-> FALSE, val |-> << >>, ttl |-> -2]

SetKeys == RegionIds \X TypeIds

RECURSIVE Reverse(_)
Reverse(seq) ==
    IF seq = << >> THEN << >> ELSE Append(Reverse(Tail(seq)), Head(seq))

\* the commands of a pipeline
Cmd(op, key, arg) == [op |-> op, key |-> key, arg |-> arg]

\* the effect of one command on the keys of the server
Apply(d, c) ==
    CASE c.op = "SET" ->
            \* SET writes the value and discards the key's TTL
            [d EXCEPT !.orders[c.key] =
                [present |-> TRUE, val |-> c.arg, ttl |-> -1]]
      [] c.op = "EXPIRE" ->
            IF d.orders[c.key].present
            THEN [d EXCEPT !.orders[c.key].ttl = c.arg] ELSE d
      [] c.op = "SADD" ->
            [d EXCEPT !.sets[c.key] = @ \cup {c.arg}]
      [] c.op = "SREM" ->
            [d EXCEPT !.sets[c.key] = @ \ {c.arg}]
      [] c.op = "DEL" ->
            IF c.key = "r" THEN [d EXCEPT !.regions = << >>]
            ELSE [d EXCEPT !.group_types = << >>]
      [] c.op = "RPUSH" ->
            [d EXCEPT !.regions = @ \o c.arg]
      [] c.op = "LPUSH" ->
            \* LPUSH puts each value at the head, the last one first
            [d EXCEPT !.group_types = Reverse(c.arg) \o @]
      [] c.op = "HSET" ->
            [d EXCEPT !.group_hash[c.arg.field] = c.arg.value]
      [] c.op = "HSETMAP" ->
            \* HSET key mapping=..: the fields of the mapping are written,
            \* the other fields of the hash stay (d is the info hashes)
            [d EXCEPT ![c.key] = c.arg @@ @]
      [] OTHER -> d

RECURSIVE ApplyAll(_, _)
ApplyAll(d, cmds) ==
    IF cmds = << >> THEN d ELSE ApplyAll(Apply(d, Head(cmds)), Tail(cmds))

\* RPUSH without a value is refused by the server when it is queued, and
\* EXEC then discards the whole transaction (EXECABORT)
Refused(cmds) ==
    \E i \in 1..Len(cmds) : cmds[i].op = "RPUSH" /\ cmds[i].arg = << >>

\* (mutation of AtomicBatch) the pipeline is no transaction: its commands
\* reach the server one at a time
AtomicBatchOfOne(cmds) == 1

\* `self.__connection.pipeline()` ... `conn.execute()`: a MULTI/EXEC
\* transaction; the number of queued commands the server runs in one step
AtomicBatch(cmds) == Len(cmds)

\* the ids of a set as a list (SMEMBERS gives them in some order: ascending)
RECURSIVE SetToSeq(_)
SetToSeq(S) ==
    IF S = {} THEN << >>
    ELSE LET m == CHOOSE x \in S : \A y \in S : x <= y
         IN  << m >> \o SetToSeq(S \ {m})

Range(seq) == {seq[i] : i \in 1..Len(seq)}

\* the lists of region ids the remote API gives: distinct ids, ascending
RegionLists == {SetToSeq(S) : S \in SUBSET RegionIds}

\* the batches of orders of one region: some of its orders, at one remaining
\* volume
OrderBatches(region) ==
    {[id \in S |-> vol] :
        S \in SUBSET {id \in OrderIds : RegionOf(id) = region} \ {{}},
        vol \in Volumes}

\* RedisDatabase.add_orders: the commands queued for the orders of a page,
\* three per order
RECURSIVE AddOrdersCmds(_, _, _)
AddOrdersCmds(region_id, batch, ids) ==
    IF ids = << >> THEN << >>
    ELSE LET order == OrderDict(Head(ids), batch[Head(ids)])
         IN  << Cmd("SET", order.order_id, EncodeOrder(order)),
                Cmd("EXPIRE", order.order_id, MARKET_ORDER_TTL),
                Cmd("SADD", <<region_id, order.type_id>>, order.order_id) >>
             \o AddOrdersCmds(region_id, batch, Tail(ids))

\* (mutation of RefreshOrdersCmds) the refresh writes the key again
RECURSIVE RefreshOrdersCmdsRewriting(_)
RefreshOrdersCmdsRewriting(ids) ==
    IF ids = << >> THEN << >>
    ELSE << Cmd("SET", Head(ids), << >>),
            Cmd("EXPIRE", Head(ids), MARKET_ORDER_TTL) >>
         \o RefreshOrdersCmdsRewriting(Tail(ids))

\* RedisDatabase.refresh_orders: one EXPIRE per id
RECURSIVE RefreshOrdersCmds(_)
RefreshOrdersCmds(ids) ==
    IF ids = << >> THEN << >>
    ELSE << Cmd("EXPIRE", Head(ids), MARKET_ORDER_TTL) >>
         \o RefreshOrdersCmds(Tail(ids))

\* the item types of one market group, as the remote API lists them
TypeLists == {SetToSeq(S) : S \in SUBSET TypeIds}

\* RedisDatabase.add_market_group_info, for one group info: HSET of the
\* fields; with a non-empty type list DEL and LPUSH of the group's type list
\* and hastypes = 1, with an empty one hastypes = 0 only
AddMarketGroupInfoCmds(type_list) ==
    << Cmd("HSET", "g", [field |-> "info", value |-> 1]) >>
    \o (IF type_list # << >>
        THEN << Cmd("DEL", "gt", << >>),
                Cmd("LPUSH", "gt", type_list),
                Cmd("HSET", "g", [field |-> "hastypes", value |-> 1]) >>
        ELSE << Cmd("HSET", "g", [field |-> "hastypes", value |-> 0]) >>)

\* RedisDatabase.set_regions: DEL of the list, RPUSH of the new ids
SetRegionsCmds(region_ids) ==
    << Cmd("DEL", "r", << >>), Cmd("RPUSH", "r", region_ids) >>

NoWrite == [op |-> "none", region |-> 0, batch |-> << >>, old |-> << >>]

NoRead == [op |-> "none", region |-> 0, type |-> 0, system |-> 0]

NotSeen == [during |-> FALSE, old |-> << >>, new |-> << >>]

\* a worker calls add_orders(region_id, orders): the pipeline is filled
AddOrders ==
    /\ wr_pc = "idle"
    /\ \E region \in RegionIds : \E batch \in OrderBatches(region) :
          /\ pipe' = AddOrdersCmds(region, batch, SetToSeq(DOMAIN batch))
          /\ wr_args' = [op |-> "add_orders", region |-> region,
                         batch |-> batch, old |-> << >>]
    /\ wr_pc' = "exec"
    /\ UNCHANGED <<db, rd_pc, rd_args, order_ids, remove_ids, rd_result,
                   rd_from, rd_seen, last_add>>

\* a worker calls refresh_orders(order_ids), with one of the lists `lists`
\* of ids: the pipeline is filled
RefreshOrders(lists) ==
    /\ wr_pc = "idle"
    /\ \E ids \in lists :
          /\ pipe' = RefreshOrdersCmds(SetToSeq(ids))
          /\ wr_args' = [op |-> "refresh_orders", region |-> 0,
                         batch |-> SetToSeq(ids), old |-> db.orders]
    /\ wr_pc' = "exec"
    /\ UNCHANGED <<db, rd_pc, rd_args, order_ids, remove_ids, rd_result,
                   rd_from, rd_seen, last_add>>

\* a worker calls set_regions(region_ids): the pipeline is filled
SetRegions ==
    /\ wr_pc = "idle"
    /\ \E region_ids \in RegionLists :
          /\ pipe' = SetRegionsCmds(region_ids)
          /\ wr_args' = [op |-> "set_regions", region |-> 0,
                         batch |-> region_ids, old |-> db.regions]
    /\ wr_pc' = "exec"
    /\ UNCHANGED <<db, rd_pc, rd_args, order_ids, remove_ids, rd_result,
                   rd_from, rd_seen, last_add>>

\* a worker calls add_market_group_info([group_info]): the pipeline is filled
AddMarketGroupInfo ==
    /\ wr_pc = "idle"
    /\ \E type_list \in TypeLists :
          /\ pipe' = AddMarketGroupInfoCmds(type_list)
          /\ wr_args' = [op |-> "add_market_group_info", region |-> 0,
                         batch |-> type_list, old |-> db.group_types]
    /\ wr_pc' = "exec"
    /\ UNCHANGED <<db, rd_pc, rd_args, order_ids, remove_ids, rd_result,
                   rd_from, rd_seen, last_add>>

\* conn.execute(): the server runs the queued commands; the server has
\* answered when none is left
PipelineExecute ==
    /\ wr_pc = "exec"
    /\ pipe # << >>
    /\ ~Refused(pipe)
    /\ LET n == AtomicBatch(pipe)
       IN  /\ db' = ApplyAll(db, SubSeq(pipe, 1, n))
           /\ pipe' = SubSeq(pipe, n + 1, Len(pipe))
           /\ wr_pc' = IF n = Len(pipe) THEN "done" ELSE "exec"
    /\ last_add' = IF wr_args.op = "add_orders" /\ rd_pc = "idle"
                       /\ AtomicBatch(pipe) = Len(pipe)
                    THEN [wr_args EXCEPT !.op = "executed"] ELSE NoWrite
    /\ UNCHANGED <<wr_args, rd_pc, rd_args, order_ids, remove_ids, rd_result,
                   rd_from, rd_seen>>

\* conn.execute() of a pipeline without a command (refresh_orders([]))
PipelineExecuteEmpty ==
    /\ wr_pc = "exec"
    /\ pipe = << >>
    /\ wr_pc' = "done"
    /\ UNCHANGED <<db, wr_args, pipe, rd_pc, rd_args, order_ids, remove_ids,
                   rd_result, rd_from, rd_seen, last_add>>

\* the write returns to the task that called it, or its exception does
WriteReturn ==
    /\ wr_pc \in {"done", "raised"}
    /\ wr_pc' = "idle"
    /\ wr_args' = NoWrite
    /\ last_add' = IF last_add.op # "executed" THEN last_add
                    ELSE IF rd_pc = "idle"
                         THEN [last_add EXCEPT !.op = "add_orders"]
                         ELSE NoWrite
    /\ UNCHANGED <<db, pipe, rd_pc, rd_args, order_ids, remove_ids, rd_result,
                   rd_from, rd_seen>>

\* conn.execute() raises: the server refused a command and discarded the
\* transaction; no key has changed
PipelineAbort ==
    /\ wr_pc = "exec"
    /\ Refused(pipe)
    /\ pipe' = << >>
    /\ wr_pc' = "raised"
    /\ UNCHANGED <<db, wr_args, rd_pc, rd_args, order_ids, remove_ids,
                   rd_result, rd_from, rd_seen, last_add>>

\* (mutation of Queued) the client sends each command as it is queued
QueuedSentAtOnce(d, cmds) == ApplyAll(d, cmds)

\* `with self.__connection.pipeline() as conn: conn.<command>(..)`: the
\* commands are kept by the client until conn.execute(); the keys of the
\* server after `cmds` have been queued
Queued(d, cmds) == d

\* tasks.py 143-144: fetch_regions failed and gave None; set_regions(None)
\* queues the DEL and raises TypeError at `*region_ids` (line 245), before
\* conn.execute()
SetRegionsNull ==
    /\ wr_pc = "idle"
    /\ pipe' = << Cmd("DEL", "r", << >>) >>
    /\ db' = Queued(db, pipe')
    /\ wr_args' = [op |-> "set_regions", region |-> 0,
                   batch |-> << >>, old |-> db.regions]
    /\ wr_pc' = "unwind"
    /\ UNCHANGED <<rd_pc, rd_args, order_ids, remove_ids, rd_result,
                   rd_from, rd_seen, last_add>>

\* tasks.py 166-174: add_market_group_info([group_info, None]), the second
\* fetch having failed: the commands of the first info are queued, then
\* `group_info['market_group_id']` of None raises TypeError (line 421)
AddMarketGroupInfoNull ==
    /\ wr_pc = "idle"
    /\ \E type_list \in TypeLists :
          /\ pipe' = AddMarketGroupInfoCmds(type_list)
          /\ wr_args' = [op |-> "add_market_group_info", region |-> 0,
                         batch |-> type_list, old |-> db.group_types]
    /\ db' = Queued(db, pipe')
    /\ wr_pc' = "unwind"
    /\ UNCHANGED <<rd_pc, rd_args, order_ids, remove_ids, rd_result,
                   rd_from, rd_seen, last_add>>

\* the exception leaves the `with` block: the pipeline is reset, its
\* commands are dropped without being sent
PipelineDiscard ==
    /\ wr_pc = "unwind"
    /\ pipe' = << >>
    /\ wr_pc' = "raised"
    /\ UNCHANGED <<db, wr_args, rd_pc, rd_args, order_ids, remove_ids,
                   rd_result, rd_from, rd_seen, last_add>>

\* the key of an order after `secs` seconds: gone once its TTL has run out
Aged(k, secs) ==
    IF ~k.present \/ k.ttl < 0 THEN k
    ELSE IF k.ttl <= secs THEN NoKey
    ELSE [k EXCEPT !.ttl = k.ttl - secs]

\* time passes: the server expires the keys whose TTL has run out
Tick ==
    /\ \E id \in OrderIds : db.orders[id].present
    /\ db' = [db EXCEPT !.orders = [id \in OrderIds |->
                                       Aged(db.orders[id], TickSeconds)]]
    /\ last_add' = NoWrite
    /\ UNCHANGED <<wr_pc, wr_args, pipe, rd_pc, rd_args, order_ids,
                   remove_ids, rd_result, rd_from, rd_seen>>

\* RedisDatabase.get_regions: LRANGE of the region list, each id cast to int
GetRegions ==
    /\ rd_pc = "idle"
    /\ rd_args' = [NoRead EXCEPT !.op = "get_regions"]
    /\ rd_result' = db.regions
    /\ rd_seen' = IF wr_args.op = "set_regions"
                  THEN [during |-> TRUE, old |-> wr_args.old,
                        new |-> wr_args.batch]
                  ELSE NotSeen
    /\ rd_pc' = "returned"
    /\ UNCHANGED <<db, wr_pc, wr_args, pipe, order_ids, remove_ids, rd_from,
                   last_add>>

\* RedisDatabase.get_orders, lines 684-690: SMEMBERS of the (region,type) set
GetOrdersMembers(systems) ==
    /\ rd_pc = "idle"
    /\ \E region \in RegionIds, type \in TypeIds, system \in systems :
          /\ rd_args' = [op |-> "get_orders", region |-> region,
                         type |-> type, system |-> system]
          /\ order_ids' = SetToSeq(db.sets[<<region, type>>])
    /\ rd_pc' = "smembers"
    /\ UNCHANGED <<db, wr_pc, wr_args, pipe, remove_ids, rd_result, rd_from,
                   rd_seen, last_add>>

\* (mutation of NoValue) a key that is not fresh counts as gone
NoValueOrOld(k) == ~k.present \/ k.ttl < MARKET_ORDER_TTL

\* get_orders, line 701: `if not results[index]`, the GET gave no value
NoValue(k) == ~k.present

\* (mutation of SystemMatches) the system filter is not applied
SystemMatchesAlways(system_id, order_fields) == TRUE

\* get_orders, line 705: `not system_id or order_fields['sid'] == system_id`
\* (no filter is written as the system id 0)
SystemMatches(system_id, order_fields) ==
    system_id = 0 \/ order_fields["sid"] = system_id

\* get_orders, lines 698-712: the loop over the results of the pipeline
\* (GET and TTL of each id): an id without a value goes to remove_ids, an
\* order that passes the system filter is decoded and gets its age and region
RECURSIVE DecodeResults(_, _, _)
DecodeResults(d, ids, args) ==
    IF ids = << >>
    THEN [orders |-> << >>, from |-> << >>, remove |-> << >>]
    ELSE LET k    == d.orders[Head(ids)]
             rest == DecodeResults(d, Tail(ids), args)
         IN  IF NoValue(k)
             THEN [rest EXCEPT !.remove = << Head(ids) >> \o @]
             ELSE LET order_fields == DecodeOrder(k.val)
                  IN  IF SystemMatches(args.system, order_fields)
                      THEN [rest EXCEPT
                              !.orders = << order_fields @@
                                   [age |-> MARKET_ORDER_TTL - k.ttl,
                                    rid |-> args.region] >> \o @,
                              !.from = << Head(ids) >> \o @]
                      ELSE rest

\* get_orders, lines 692-712: the pipeline of GET and TTL, then the loop
GetOrdersFetch ==
    /\ rd_pc = "smembers"
    /\ LET got == DecodeResults(db, order_ids, rd_args)
       IN  /\ rd_result' = got.orders
           /\ rd_from' = got.from
           /\ remove_ids' = got.remove
    /\ rd_pc' = "fetched"
    /\ UNCHANGED <<db, wr_pc, wr_args, pipe, rd_args, order_ids, rd_seen, last_add>>

\* get_orders, lines 714-719: the pipeline of SREM, then the return of the
\* orders to the caller
GetOrdersPrune ==
    /\ rd_pc = "fetched"
    /\ db' = [db EXCEPT !.sets[<<rd_args.region, rd_args.type>>] =
                            @ \ Range(remove_ids)]
    /\ last_add' = IF last_add.op # "none"
                       /\ Range(remove_ids) \cap DOMAIN last_add.batch # {}
                    THEN NoWrite ELSE last_add
    /\ rd_pc' = "idle"
    /\ rd_args' = NoRead
    /\ order_ids' = << >>
    /\ remove_ids' = << >>
    /\ rd_result' = << >>
    /\ rd_from' = << >>
    /\ UNCHANGED <<wr_pc, wr_args, pipe, rd_seen>>

\* the caller of get_regions takes the list
ReaderEnd ==
    /\ rd_pc = "returned"
    /\ rd_pc' = "idle"
    /\ rd_args' = NoRead
    /\ order_ids' = << >>
    /\ remove_ids' = << >>
    /\ rd_result' = << >>
    /\ rd_from' = << >>
    /\ rd_seen' = NotSeen
    /\ UNCHANGED <<db, wr_pc, wr_args, pipe, last_add>>

\* the store with a given region list (<< >>: a database never written to)
InitStoreWith(region_ids) ==
    /\ db = [orders |-> [id \in OrderIds |-> NoKey],
             sets |-> [k \in SetKeys |-> {}],
             regions |-> region_ids,
             group_types |-> << >>,
             group_hash |-> [info |-> 0, hastypes |-> -1]]
    /\ wr_pc = "idle"
    /\ wr_args = NoWrite
    /\ pipe = << >>
    /\ rd_pc = "idle"
    /\ rd_args = NoRead
    /\ order_ids = << >>
    /\ remove_ids = << >>
    /\ rd_result = << >>
    /\ rd_from = << >>
    /\ rd_seen = NotSeen
    /\ last_add = NoWrite

InitStore == InitStoreWith(<< >>)

\* the order keys and sets: a worker writes, a query reads, time passes
NextOrders ==
    /\ UNCHANGED exceptStore
    /\ \/ AddOrders
       \/ PipelineExecute
       \/ WriteReturn
       \/ Tick
       \/ GetOrdersMembers({0})
       \/ GetOrdersFetch
       \/ GetOrdersPrune

\* the order keys: the workers add orders and refresh them, time passes
NextRefresh ==
    /\ UNCHANGED exceptStore
    /\ \/ AddOrders
       \/ RefreshOrders(SUBSET OrderIds)
       \/ PipelineExecute
       \/ PipelineExecuteEmpty
       \/ WriteReturn
       \/ Tick

\* the order keys and sets under every operation on them: the workers add
\* orders and refresh them, a query reads, time passes
NextStore ==
    /\ UNCHANGED exceptStore
    /\ \/ AddOrders
       \/ RefreshOrders({OrderIds})
       \/ PipelineExecute
       \/ WriteReturn
       \/ Tick
       \/ GetOrdersMembers({0})
       \/ GetOrdersFetch
       \/ GetOrdersPrune

\* restapi.py, region_type_orders and system_type_orders: a query without a
\* system (0) and a query for one system
QuerySystems == {0, 1}

\* the queries with and without a system filter, next to a worker that adds
\* orders and to the clock
NextQuery ==
    /\ UNCHANGED exceptStore
    /\ \/ AddOrders
       \/ PipelineExecute
       \/ WriteReturn
       \/ Tick
       \/ GetOrdersMembers(QuerySystems)
       \/ GetOrdersFetch
       \/ GetOrdersPrune

\* the reference lists: the workers write the region list and the type list
\* of a market group
NextLists ==
    /\ UNCHANGED exceptStore
    /\ \/ SetRegions
       \/ AddMarketGroupInfo
       \/ PipelineExecute
       \/ PipelineAbort
       \/ WriteReturn

\* the region list: a worker writes it, a query reads it
NextRegions ==
    /\ UNCHANGED exceptStore
    /\ \/ SetRegions
       \/ PipelineExecute
       \/ PipelineAbort
       \/ WriteReturn
       \/ GetRegions
       \/ ReaderEnd

\* ------------------------------------------------------------------------
\* api.py: the page lock
\* ------------------------------------------------------------------------

\* (mutation of HeldDuringRequest) the request is made inside the `with`
HeldDuringRequestAlways == TRUE

\* __fetch_type_order_page: the `with self.__order_page_lock:` block ends
\* before __fetch_api_page is called
HeldDuringRequest == FALSE

\* the list of Pages after the lookup of `num`: `number > len(order_pages)`
\* inserts a new Page at number-1 (at the end of the list)
OrderPagesWith(num) ==
    IF num > Len(order_pages) THEN Append(order_pages, num) ELSE order_pages

\* __fetch_type_order_page is called: `with self.__order_page_lock:` is
\* entered once the lock is free
PageLockAcquire(w) ==
    /\ tpc[w] = "idle"
    /\ order_page_lock = 0
    /\ order_page_lock' = w
    /\ \E num \in 1..MaxPages : page_number' = [page_number EXCEPT ![w] = num]
    /\ tpc' = [tpc EXCEPT ![w] = "lookup"]
    /\ UNCHANGED <<order_pages, order_page>>

\* the Page is looked up or created, the `with` block is left and
\* __fetch_api_page sends the request
PageLookup(w) ==
    /\ tpc[w] = "lookup"
    /\ order_pages' = OrderPagesWith(page_number[w])
    /\ order_page' = [order_page EXCEPT ![w] =
                         IF page_number[w] > Len(order_pages) THEN page_number[w]
                         ELSE order_pages[page_number[w]]]
    /\ order_page_lock' = IF HeldDuringRequest THEN w ELSE 0
    /\ tpc' = [tpc EXCEPT ![w] = "request"]
    /\ UNCHANGED page_number

\* the response arrives and __fetch_type_order_page returns
PageRequestDone(w) ==
    /\ tpc[w] = "request"
    /\ order_page_lock' = IF order_page_lock = w THEN 0 ELSE order_page_lock
    /\ tpc' = [tpc EXCEPT ![w] = "idle"]
    /\ page_number' = [page_number EXCEPT ![w] = 0]
    /\ order_page' = [order_page EXCEPT ![w] = 0]
    /\ UNCHANGED order_pages

InitPageLock ==
    /\ order_page_lock = 0
    /\ order_pages = << >>
    /\ tpc = [w \in Workers |-> "idle"]
    /\ page_number = [w \in Workers |-> 0]
    /\ order_page = [w \in Workers |-> 0]

\* the workers fetch pages of one resource class
NextPageLock ==
    /\ UNCHANGED exceptLock
    /\ \/ \E w \in Workers : PageLockAcquire(w)
       \/ \E w \in Workers : PageLookup(w)
       \/ \E w \in Workers : PageRequestDone(w)

\* ------------------------------------------------------------------------
\* stats.py: Stats, and worker.py: WorkerPool.wait's sum of the workers' Stats
\* ------------------------------------------------------------------------

\* Stats.REQUEST, Stats.UPDATE, Stats.NUM_STATS = range(3)
REQUEST == 0

UPDATE == 1

NUM_STATS == 2

StatIndex == 0..(NUM_STATS - 1)

\* Stats.__init__: four lists [0] * NUM_STATS
ZeroStats ==
    [total   |-> [i \in StatIndex |-> 0],
     changed |-> [i \in StatIndex |-> 0],
     failure |-> [i \in StatIndex |-> 0],
     time    |-> [i \in StatIndex |-> 0]]

\* Stats.update(stat, total, changed, failure, runtime)
StatsUpdate(self, u) ==
    [total   |-> [self.total   EXCEPT ![u.stat] = @ + u.total],
     changed |-> [self.changed EXCEPT ![u.stat] = @ + u.changed],
     failure |-> [self.failure EXCEPT ![u.stat] = @ + u.failure],
     time    |-> [self.time    EXCEPT ![u.stat] = @ + u.runtime]]

\* (mutation of StatsReset) reset() leaves the counters as they are
StatsResetKeeps(self) == self

\* Stats.reset: all four lists are [0] * NUM_STATS again
StatsReset(self) == ZeroStats

\* (mutation of StatsIAdd) only the totals are added
StatsIAddTotals(self, other) ==
    [self EXCEPT !.total = [i \in StatIndex |-> self.total[i] + other.total[i]]]

\* Stats.__iadd__: every counter of every category is added
StatsIAdd(self, other) ==
    [total   |-> [i \in StatIndex |-> self.total[i]   + other.total[i]],
     changed |-> [i \in StatIndex |-> self.changed[i] + other.changed[i]],
     failure |-> [i \in StatIndex |-> self.failure[i] + other.failure[i]],
     time    |-> [i \in StatIndex |-> self.time[i]    + other.time[i]]]

\* the updates of the fetch client and of the store: a failed request
\* (api.py 250) and a store write of one item (redis.py 248-252); the time
\* is counted in whole units
StatUpdates ==
    {[stat |-> REQUEST, total |-> 1, changed |-> 0, failure |-> 1, runtime |-> 0],
     [stat |-> UPDATE,  total |-> 1, changed |-> 1, failure |-> 0, runtime |-> 1]}

RECURSIVE SumOfWorkers(_)
\* the component-wise sum of the Stats of the workers 1..n
SumOfWorkers(n) ==
    IF n = 0 THEN ZeroStats ELSE StatsIAdd(SumOfWorkers(n - 1), stats[n])

\* WorkerPool.__process: the running task's fetch or store call updates the
\* worker's Stats, and the task returns
TaskReturnCounted(w) ==
    /\ TaskReturn(w)
    /\ \E u \in StatUpdates :
          /\ stats' = [stats EXCEPT ![w] = StatsUpdate(@, u)]
          /\ recorded' = StatsUpdate(recorded, u)
    /\ UNCHANGED <<total, sum_index, logged, drained, reported>>

\* WorkerPool.wait: join() returns; total = stats.Stats()
WaitJoined ==
    /\ JoinReturn
    /\ total' = ZeroStats
    /\ sum_index' = 0
    /\ drained' = SumOfWorkers(PoolSize)
    /\ UNCHANGED <<stats, logged, recorded, reported>>

\* WorkerPool.wait: one turn of the loop: total += worker_stats;
\* worker_stats.reset()
WaitSum ==
    /\ spc = "joined"
    /\ sum_index < PoolSize
    /\ total' = StatsIAdd(total, stats[sum_index + 1])
    /\ stats' = [stats EXCEPT ![sum_index + 1] = StatsReset(@)]
    /\ sum_index' = sum_index + 1
    /\ UNCHANGED <<poolVars, logged, drained, recorded, reported>>

\* WorkerPool.wait: total.dump(self.__log); wait() returns
WaitDump ==
    /\ spc = "joined"
    /\ sum_index = PoolSize
    /\ WaitReturn
    /\ logged' = total
    /\ reported' = StatsIAdd(reported, total)
    /\ UNCHANGED <<stats, total, sum_index, drained, recorded>>

InitStats ==
    /\ stats = [w \in Workers |-> ZeroStats]
    /\ total = ZeroStats
    /\ sum_index = 0
    /\ logged = ZeroStats
    /\ drained = ZeroStats
    /\ recorded = ZeroStats
    /\ reported = ZeroStats

\* the pool with the Stats of its workers
NextStats ==
    /\ UNCHANGED exceptStats
    /\ \/ SchedEnqueue /\ UNCHANGED statVars
       \/ WaitBegin /\ UNCHANGED statVars
       \/ WaitJoined
       \/ WaitSum
       \/ WaitDump
       \/ \E w \in Workers : WorkerGet(w) /\ UNCHANGED statVars
       \/ \E w \in Workers : TaskReturnCounted(w)
       \/ \E w \in Workers : TaskDone(w) /\ UNCHANGED statVars

\* ------------------------------------------------------------------------
\* watcher.py: Watcher
\* ------------------------------------------------------------------------

Configs ==
    [regions : BOOLEAN, groups : BOOLEAN, index : BOOLEAN, orders : BOOLEAN,
     authenticate : BOOLEAN]

\* a configuration with every job switched on
AllJobs ==
    [regions |-> TRUE, groups |-> TRUE, index |-> TRUE, orders |-> TRUE,
     authenticate |-> TRUE]

\* (mutation of StartJobs) the order job runs first
StartJobsOrdersFirst == << "order", "universe", "group" >>

\* watch(): self.__universe_job.run(); self.__group_job.run();
\* self.__order_job.run()
StartJobs == << "universe", "group", "order" >>

\* schedule.run_pending(): the due jobs, each once, sorted by their next run
PendingJobs ==
    {<< >>} \cup {<< a >> : a \in Range(StartJobs)}
            \cup {<< a, b >> : a, b \in Range(StartJobs)}
            \cup {<< a, b, c >> : a, b, c \in Range(StartJobs)}

NoDuplicates(seq) == \A i, j \in 1..Len(seq) : seq[i] = seq[j] => i = j

PageNone == [made |-> FALSE, etag |-> "", cache |-> None]

\* RegionalAPI.Page.__init__: etag "", cache None
PageNew == [made |-> TRUE, etag |-> "", cache |-> None]

\* the state a fetch of the page leaves: the tag of the response and the
\* ids of its orders
PagesFetched == {[made |-> TRUE, etag |-> "a", cache |-> List({1})]}

\* (mutation of PageLookedUp) a new Page at every fetch
PageLookedUpAlwaysNew(api) == PageNew

\* __fetch_type_order_page: the Page of the list, a new one if there is none
PageLookedUp(api) == IF api.page.made THEN api.page ELSE PageNew

\* GlobalAPI.__init__ / RegionalAPI.__init__: no access token, no Pages
ApiNew == [access_token |-> "", page |-> PageNone]

\* GlobalAPI.set_access(access_token)
ApiSetAccess(api, token) == [api EXCEPT !.access_token = token]

\* (mutation of ApisSetAccess) the regional clients keep their token
ApisSetAccessSkipped(apis, token) == apis

\* __refresh_access: for _, region_api in self.__region_apis.items():
\*     region_api.set_access(...)
ApisSetAccess(apis, token) ==
    [r \in DOMAIN apis |-> ApiSetAccess(apis[r], token)]

\* (mutation of ApisCleared) the regional clients keep their token
ApisClearedSkipped(apis) == apis

\* __refresh_access, except branch: region_api.set_access() for every
\* RegionalAPI of the dict
ApisCleared(apis) == ApisSetAccess(apis, "")

NoFetch == [region |-> 0, used |-> PageNone, had |-> PageNone,
            previous |-> PageNone]

NoRequest == [sent |-> FALSE, access_token |-> "", failed |-> FALSE,
              stale |-> FALSE]

\* fetch_access(): the token of a successful refresh differs from the one
\* before
NewToken == IF global_token = "t1" THEN "t2" ELSE "t1"

\* WorkerPool.enqueue as the scheduler thread sees it
Enqueued(tasks) == pool_tasks \o tasks

\* (mutation of Drained) wait() returns at once
DrainedAlways == TRUE

\* WorkerPool.wait: join() returns when no task is left
Drained == pool_tasks = << >>

OrderTask(r) ==
    [kind |-> "UpdateOrders", region |-> r, api |-> "dict",
     failed |-> refresh_failed, ids |-> << >>]

PlainTask(kind) ==
    [kind |-> kind, region |-> 0, api |-> "none", failed |-> FALSE,
     ids |-> << >>]

\* a task of the universe refresh that holds a list of ids
\* (UpdateRegionInfoTask(region_ids), UpdateRegionSystemsTask(region_id, ..),
\* UpdateSystemInfoTask(system_ids))
InfoTask(kind, ids) == [PlainTask(kind) EXCEPT !.ids = ids]

\* (mutation of ExpiryWritten) the record is written at every iteration
ExpiryWrittenAlways(cached, n) == IF n < 2 THEN n + 1 ELSE 2

\* watch(): `if not self.__universe_cached: set_universe_cache_expiry(..)`
\* (and the same for the group record): the number of writes of the record
\* since the job last ran, after the test (counted up to 2)
ExpiryWritten(cached, n) ==
    IF cached THEN n ELSE IF n < 2 THEN n + 1 ELSE 2

\* the region ids of the outstanding order tasks that hold a RegionalAPI of
\* the dict
HeldRegions ==
    {pool_tasks[i].region : i \in {j \in 1..Len(pool_tasks) :
                                      pool_tasks[j].api = "dict"}}

\* __init_region_apis: self.__region_apis = {}, then a new RegionalAPI for
\* every region id of database.get_regions(); the old objects live on in the
\* tasks that hold them
InitRegionApis ==
    /\ region_apis' = [r \in Range(db.regions) |-> ApiNew]
    /\ detached' = [r \in HeldRegions |-> region_apis[r]]
    /\ pool_tasks' = [i \in 1..Len(pool_tasks) |->
                        IF pool_tasks[i].api = "dict"
                        THEN [pool_tasks[i] EXCEPT !.api = "detached"]
                        ELSE pool_tasks[i]]

\* watch() / run_pending(): the next job is run
JobBegin ==
    /\ mpc = "jobs"
    /\ todo # << >>
    /\ mpc' = Head(todo)
    /\ todo' = Tail(todo)
    /\ job_log' = IF phase = "start" THEN Append(job_log, Head(todo))
                  ELSE job_log
    /\ UNCHANGED <<config, phase, pool_tasks, global_token, region_apis,
                   detached, universe_cached, group_cached, refresh_failed,
                   page_left, last_fetch, last_request, expiry_writes,
                   region_infos, db>>

\* __update_universe up to its wait(), or to its end without the task
UpdateUniverse ==
    /\ mpc = "universe"
    /\ IF config.regions
       THEN /\ pool_tasks' = Enqueued(<< PlainTask("UpdateRegions") >>)
            /\ mpc' = "universe_wait"
            /\ UNCHANGED <<region_apis, detached, universe_cached,
                           expiry_writes>>
       ELSE /\ InitRegionApis
            /\ universe_cached' = FALSE
            /\ expiry_writes' = [expiry_writes EXCEPT !["universe"] = 0]
            /\ mpc' = "jobs"
    /\ UNCHANGED <<config, phase, todo, global_token, group_cached,
                   refresh_failed, job_log, region_infos, page_left,
                   last_fetch, last_request, db>>

\* __update_universe: wait() returns; __init_region_apis()
UpdateUniverseWaited ==
    /\ mpc = "universe_wait"
    /\ Drained
    /\ InitRegionApis
    /\ universe_cached' = FALSE
    /\ expiry_writes' = [expiry_writes EXCEPT !["universe"] = 0]
    /\ mpc' = "jobs"
    /\ UNCHANGED <<config, phase, todo, global_token, group_cached,
                   refresh_failed, job_log, region_infos, page_left,
                   last_fetch, last_request, db>>

\* search.py, __create_region_index: get_region_info gives {} for a region
\* of the list whose hash was never written (__cast_fields of an empty
\* hash), and `region_info['name']` raises KeyError
RegionIndexRaises == ~(Range(db.regions) \subseteq region_infos)

\* SearchIndex.build_index raises: the info of a region is missing, or that
\* of a system or of an item type is (system_info['name'] and
\* type_info['name'] are read the same way; those hashes are not kept here,
\* so their absence is possible in every state)
IndexRaises == TRUE

\* SearchIndex.build_index returns: every info it reads is there
IndexBuilt == ~RegionIndexRaises

\* __update_groups up to its wait(), or to its end without the index
UpdateGroups ==
    /\ mpc = "group"
    /\ pool_tasks' = IF config.groups
                     THEN Enqueued(<< PlainTask("UpdateGroups") >>)
                     ELSE pool_tasks
    /\ IF config.index
       THEN mpc' = "group_wait" /\ UNCHANGED <<group_cached, expiry_writes>>
       ELSE /\ mpc' = "jobs"
            /\ group_cached' = FALSE
            /\ expiry_writes' = [expiry_writes EXCEPT !["group"] = 0]
    /\ UNCHANGED <<config, phase, todo, global_token, region_apis, detached,
                   universe_cached, refresh_failed, job_log, region_infos,
                   page_left, last_fetch, last_request, db>>

\* __update_groups: wait() returns; the search index is built
UpdateGroupsIndexed ==
    /\ mpc = "group_wait"
    /\ Drained
    /\ \/ /\ IndexBuilt
          /\ group_cached' = FALSE
          /\ expiry_writes' = [expiry_writes EXCEPT !["group"] = 0]
          /\ mpc' = "jobs"
       \/ /\ IndexRaises
          /\ mpc' = "raised"
          /\ UNCHANGED <<group_cached, expiry_writes>>
    /\ UNCHANGED <<config, phase, todo, pool_tasks, global_token,
                   region_apis, detached, universe_cached, refresh_failed,
                   job_log, region_infos, page_left, last_fetch,
                   last_request, db>>

\* __update_orders: __refresh_access(): fetch_access() gives a token, or it
\* raises and the except branch calls set_access() everywhere
UpdateOrders ==
    /\ mpc = "order"
    /\ IF ~config.orders
       THEN /\ mpc' = "jobs"
            /\ UNCHANGED <<global_token, region_apis, refresh_failed>>
       ELSE /\ mpc' = "order_enqueue"
            /\ IF ~config.authenticate
               THEN /\ refresh_failed' = FALSE
                    /\ UNCHANGED <<global_token, region_apis>>
               ELSE \/ /\ refresh_failed' = FALSE
                       /\ global_token' = NewToken
                       /\ region_apis' = ApisSetAccess(region_apis, NewToken)
                    \/ /\ refresh_failed' = TRUE
                       /\ global_token' = ""
                       /\ region_apis' = ApisCleared(region_apis)
    /\ UNCHANGED <<config, phase, todo, pool_tasks, detached,
                   universe_cached, group_cached, job_log, expiry_writes, region_infos, page_left,
                   last_fetch, last_request, db>>

\* __update_orders: an UpdateOrdersTask per RegionalAPI of the dict
EnqueueOrders ==
    /\ mpc = "order_enqueue"
    /\ pool_tasks' = Enqueued([i \in 1..Cardinality(DOMAIN region_apis) |->
                          OrderTask(SetToSeq(DOMAIN region_apis)[i])])
    /\ mpc' = "jobs"
    /\ UNCHANGED <<config, phase, todo, global_token, region_apis, detached,
                   universe_cached, group_cached, refresh_failed, job_log, expiry_writes, region_infos,
                   page_left, last_fetch, last_request, db>>

\* the initial runs are over (watch() enters its loop), or run_pending()
\* returns
JobsDone ==
    /\ mpc = "jobs"
    /\ todo = << >>
    /\ IF phase = "start"
       THEN phase' = "poll" /\ mpc' = "run_pending"
       ELSE phase' = phase /\ mpc' = "wait"
    /\ UNCHANGED <<config, todo, pool_tasks, global_token, region_apis,
                   detached, universe_cached, group_cached, refresh_failed,
                   job_log, expiry_writes, region_infos, page_left, last_fetch, last_request, db>>

\* watch(): schedule.run_pending() picks the due jobs
RunPending ==
    /\ mpc = "run_pending"
    /\ \E jobs \in PendingJobs : NoDuplicates(jobs) /\ todo' = jobs
    /\ mpc' = "jobs"
    /\ UNCHANGED <<config, phase, pool_tasks, global_token, region_apis,
                   detached, universe_cached, group_cached, refresh_failed,
                   job_log, expiry_writes, region_infos, page_left, last_fetch, last_request, db>>

\* watch(): self.__worker_pool.wait() returns; the cache expiries are
\* written where the flags are down
PollWaited ==
    /\ mpc = "wait"
    /\ Drained
    /\ expiry_writes' =
          [universe |-> ExpiryWritten(universe_cached, expiry_writes.universe),
           group    |-> ExpiryWritten(group_cached, expiry_writes.group)]
    /\ universe_cached' = TRUE
    /\ group_cached' = TRUE
    /\ detached' = << >>
    /\ mpc' = "sleep"
    /\ UNCHANGED <<config, phase, todo, pool_tasks, global_token,
                   region_apis, refresh_failed, job_log, region_infos,
                   page_left, last_fetch, last_request, db>>

\* watch(): time.sleep(update_rate) returns
Sleep ==
    /\ mpc = "sleep"
    /\ mpc' = "run_pending"
    /\ UNCHANGED <<config, phase, todo, pool_tasks, global_token,
                   region_apis, detached, universe_cached, group_cached,
                   refresh_failed, job_log, expiry_writes, region_infos, page_left, last_fetch,
                   last_request, db>>

\* the tasks the PoolSize workers can be running
Running == 1..(IF Len(pool_tasks) < PoolSize THEN Len(pool_tasks) ELSE PoolSize)

Without(seq, i) == SubSeq(seq, 1, i - 1) \o SubSeq(seq, i + 1, Len(seq))

\* the region lists the remote API answers with: none, one region, two
FetchedRegions == {l \in RegionLists : l = SetToSeq(1..Len(l)) /\ Len(l) <= 2}

\* a worker runs UpdateRegionsTask and what it enqueues: the region list of
\* the store is replaced, or left as it is when the fetch fails
RunUpdateRegions(i) ==
    /\ i \in Running
    /\ pool_tasks[i].kind = "UpdateRegions"
    /\ \E region_ids \in FetchedRegions :
          IF region_ids = << >>
          THEN \* fetch_regions gave None: set_regions(None) raises
               /\ pool_tasks' = Without(pool_tasks, i)
               /\ UNCHANGED db
          ELSE /\ db' = [db EXCEPT !.regions = region_ids]
               /\ pool_tasks' = Without(pool_tasks, i)
                     \o << InfoTask("UpdateRegionInfo", region_ids) >>
    /\ UNCHANGED <<config, mpc, phase, todo, global_token, region_apis,
                   detached, universe_cached, group_cached, refresh_failed,
                   job_log, expiry_writes, region_infos, page_left,
                   last_fetch, last_request>>

\* a worker runs UpdateRegionInfoTask(region_ids): the infos are fetched one
\* by one; a region with constellations gets an UpdateRegionSystemsTask; a
\* failed fetch gives None and `'constellations' in None` raises before
\* add_region_info; otherwise add_region_info writes the hashes
RunUpdateRegionInfo(i) ==
    /\ i \in Running
    /\ pool_tasks[i].kind = "UpdateRegionInfo"
    /\ LET ids == pool_tasks[i].ids
       IN  \/ \* the fetch of the k-th region fails
              \E k \in 1..Len(ids) :
                 /\ pool_tasks' = Without(pool_tasks, i)
                       \o [j \in 1..(k - 1) |->
                             InfoTask("UpdateRegionSystems", << ids[j] >>)]
                 /\ UNCHANGED region_infos
           \/ /\ pool_tasks' = Without(pool_tasks, i)
                    \o [j \in 1..Len(ids) |->
                          InfoTask("UpdateRegionSystems", << ids[j] >>)]
              /\ region_infos' = region_infos \cup Range(ids)
    /\ UNCHANGED <<config, mpc, phase, todo, global_token, region_apis,
                   detached, universe_cached, group_cached, refresh_failed,
                   job_log, expiry_writes, page_left, last_fetch,
                   last_request, db>>

\* a worker runs UpdateRegionSystemsTask: a failed fetch of a constellation
\* gives None and `'systems' in None` raises; otherwise an
\* UpdateSystemInfoTask is enqueued and the region's system list is written
RunUpdateRegionSystems(i) ==
    /\ i \in Running
    /\ pool_tasks[i].kind = "UpdateRegionSystems"
    /\ \/ pool_tasks' = Without(pool_tasks, i)
       \/ pool_tasks' = Without(pool_tasks, i)
             \o << InfoTask("UpdateSystemInfo", pool_tasks[i].ids) >>
    /\ UNCHANGED <<config, mpc, phase, todo, global_token, region_apis,
                   detached, universe_cached, group_cached, refresh_failed,
                   job_log, expiry_writes, region_infos, page_left,
                   last_fetch, last_request, db>>

\* a worker runs UpdateSystemInfoTask: the system infos are fetched and
\* written (add_system_info), or the write raises on a null info
RunUpdateSystemInfo(i) ==
    /\ i \in Running
    /\ pool_tasks[i].kind = "UpdateSystemInfo"
    /\ pool_tasks' = Without(pool_tasks, i)
    /\ UNCHANGED <<config, mpc, phase, todo, global_token, region_apis,
                   detached, universe_cached, group_cached, refresh_failed,
                   job_log, expiry_writes, region_infos, page_left,
                   last_fetch, last_request, db>>

\* a worker runs UpdateGroupsTask and what it enqueues
RunUpdateGroups(i) ==
    /\ i \in Running
    /\ pool_tasks[i].kind = "UpdateGroups"
    /\ pool_tasks' = Without(pool_tasks, i)
    /\ UNCHANGED <<config, mpc, phase, todo, global_token, region_apis,
                   detached, universe_cached, group_cached, refresh_failed,
                   job_log, expiry_writes, region_infos, page_left, last_fetch, last_request, db>>

\* _fetch_api with needs_auth: without a token no request is sent; a token
\* that is not the one of the last refresh is stale
AuthRequest(api, task) ==
    IF api.access_token = "" THEN NoRequest
    ELSE [sent |-> TRUE, access_token |-> api.access_token,
          failed |-> task.failed,
          stale |-> api.access_token # global_token]

\* a worker runs UpdateOrdersTask: the page of the region's orders is
\* fetched through the task's RegionalAPI, and the structure of an order is
\* looked up with an authenticated request or none is
RunUpdateOrders(i) ==
    /\ i \in Running
    /\ pool_tasks[i].kind = "UpdateOrders"
    /\ LET task == pool_tasks[i]
           r    == task.region
           api  == IF task.api = "dict" THEN region_apis[r] ELSE detached[r]
           used == PageLookedUp(api)
       IN  /\ \E left \in PagesFetched :
                /\ IF task.api = "dict"
                   THEN /\ region_apis' =
                              [region_apis EXCEPT ![r].page = left]
                        /\ UNCHANGED detached
                   ELSE /\ detached' = [detached EXCEPT ![r].page = left]
                        /\ UNCHANGED region_apis
                /\ page_left' = [page_left EXCEPT ![r] = left]
           /\ last_fetch' = [region |-> r, used |-> used, had |-> api.page,
                             previous |-> page_left[r]]
           /\ \/ last_request' = AuthRequest(api, task)
              \/ UNCHANGED last_request
    /\ pool_tasks' = Without(pool_tasks, i)
    /\ UNCHANGED <<config, mpc, phase, todo, global_token, universe_cached,
                   group_cached, refresh_failed, job_log, expiry_writes, region_infos, db>>

\* Watcher.__init__
InitWatcher ==
    /\ config \in Configs
    /\ mpc = "jobs"
    /\ phase = "start"
    /\ todo = StartJobs
    /\ pool_tasks = << >>
    /\ global_token = ""
    /\ region_apis = << >>
    /\ detached = << >>
    /\ universe_cached = FALSE
    /\ group_cached = FALSE
    /\ refresh_failed = FALSE
    /\ job_log = << >>
    /\ page_left = [r \in RegionIds |-> PageNone]
    /\ last_fetch = NoFetch
    /\ last_request = NoRequest
    /\ expiry_writes = [universe |-> 0, group |-> 0]
    /\ region_infos = Range(db.regions)

\* the store as the watcher's tasks leave it: only the region list changes
StoreButDb == <<wr_pc, wr_args, pipe, rd_pc, rd_args, order_ids, remove_ids,
                rd_result, rd_from, rd_seen, last_add>>

NextWatch ==
    /\ UNCHANGED <<exceptWatch, StoreButDb>>
    /\ \/ JobBegin
       \/ UpdateUniverse
       \/ UpdateUniverseWaited
       \/ UpdateGroups
       \/ UpdateGroupsIndexed
       \/ UpdateOrders
       \/ EnqueueOrders
       \/ JobsDone
       \/ RunPending
       \/ PollWaited
       \/ Sleep
       \/ \E i \in 1..PoolSize : RunUpdateRegions(i)
       \/ \E i \in 1..PoolSize : RunUpdateRegionInfo(i)
       \/ \E i \in 1..PoolSize : RunUpdateRegionSystems(i)
       \/ \E i \in 1..PoolSize : RunUpdateSystemInfo(i)
       \/ \E i \in 1..PoolSize : RunUpdateGroups(i)
       \/ \E i \in 1..PoolSize : RunUpdateOrders(i)

\* ------------------------------------------------------------------------
\* api.py: GlobalAPI._fetch_unpaged
\* ------------------------------------------------------------------------

\* what one attempt of the call meets: no token for an endpoint that needs
\* one (_fetch_api returns (None, "") without a request), a network failure
\* (session.get raises), or a response with a status
Attempts ==
    [kind : {"response"},
     status : {200, 304} \cup ClientStatuses \cup ServerStatuses]
    \cup {[kind |-> "failure", status |-> 0]}

\* requests.Response.__bool__ is Response.ok: false for a status of 400 and
\* above
ResponseTruthy(resp) == resp.status < 400

\* _fetch_api_unpaged for a response `request`: (success, data, status); the
\* status is `request.status_code if request else 403`
FetchApiUnpaged(resp) ==
    IF ~ResponseTruthy(resp) \/ resp.status >= 400
    THEN [success |-> FALSE, data |-> None,
          status |-> IF ResponseTruthy(resp) THEN resp.status ELSE 403]
    ELSE IF resp.status = 304
         THEN [success |-> TRUE, data |-> None, status |-> 304]
         ELSE [success |-> TRUE, data |-> List({1}), status |-> 200]

\* _fetch_api_unpaged when _fetch_api returned no request at all
FetchApiUnpagedNone == [success |-> FALSE, data |-> None, status |-> 403]

\* a fetch_* method calls _fetch_unpaged
UnpagedCall ==
    /\ upc = "idle"
    /\ \E needs_auth \in BOOLEAN : u_auth' = needs_auth
    /\ upc' = "loop"
    /\ u_errors' = 0
    /\ u_data' = None
    /\ u_sent' = 0
    /\ u_last' = 0
    /\ u_blocked' = FALSE
    /\ UNCHANGED fetchVars

\* _fetch_unpaged: the rest of one turn of its loop, once _fetch_api_unpaged
\* returned `got`
UnpagedTurn(got) ==
    /\ u_data' = got.data
    /\ IF got.success \/ u_errors >= ERROR_RETRIES
       THEN upc' = "returned" /\ UNCHANGED u_errors
       ELSE IF got.status < 500
            THEN upc' = "returned" /\ UNCHANGED u_errors
            ELSE upc' = "loop" /\ u_errors' = u_errors + 1

\* one turn of the loop without an access token for an endpoint that needs
\* one
UnpagedNoAuth ==
    /\ upc = "loop"
    /\ u_auth /\ ~access_token
    /\ UnpagedTurn(FetchApiUnpagedNone)
    /\ u_blocked' = TRUE
    /\ UNCHANGED <<u_auth, u_sent, u_last, fetchVars>>

\* one turn of the loop with a response to its request
UnpagedResponse ==
    /\ upc = "loop"
    /\ ~(u_auth /\ ~access_token)
    /\ \E a \in Attempts :
          /\ a.kind = "response"
          /\ UnpagedTurn(FetchApiUnpaged(a))
          /\ u_last' = a.status
    /\ u_sent' = u_sent + 1
    /\ UNCHANGED <<u_auth, u_blocked, fetchVars>>

\* one turn of the loop whose request fails on the network: session.get
\* raises, nothing in _fetch_api or _fetch_unpaged catches it
UnpagedNetworkFailure ==
    /\ upc = "loop"
    /\ ~(u_auth /\ ~access_token)
    /\ \E a \in Attempts : a.kind = "failure" /\ u_last' = a.status
    /\ upc' = "raised"
    /\ u_sent' = u_sent + 1
    /\ UNCHANGED <<u_auth, u_errors, u_data, u_blocked, fetchVars>>

\* the caller has the result (or the exception) of the call
UnpagedEnd ==
    /\ upc \in {"returned", "raised"}
    /\ upc' = "idle"
    /\ u_auth' = FALSE
    /\ u_errors' = 0
    /\ u_data' = None
    /\ u_sent' = 0
    /\ u_last' = 0
    /\ u_blocked' = FALSE
    /\ UNCHANGED fetchVars

InitUnpaged ==
    /\ upc = "idle"
    /\ u_auth = FALSE
    /\ u_errors = 0
    /\ u_data = None
    /\ u_sent = 0
    /\ u_last = 0
    /\ u_blocked = FALSE

\* the responses to the paged requests of an endpoint that needs a token
AuthResponses == ResponsesWith({0, 1}, {"e1"}, {OrderIds})

\* the paged and the unpaged path of the fetch client, with and without an
\* access token
NextAuth ==
    /\ UNCHANGED exceptUnpaged
    /\ \/ UnpagedCall
       \/ UnpagedNoAuth
       \/ UnpagedResponse
       \/ UnpagedNetworkFailure
       \/ UnpagedEnd
       \/ (FetchCall /\ UNCHANGED unpagedVars)
       \/ (PageChanged(AuthResponses) /\ UNCHANGED unpagedVars)
       \/ (PageServerError(AuthResponses) /\ UNCHANGED unpagedVars)
       \/ (PageNoAuth /\ UNCHANGED unpagedVars)
       \/ (FetchEnd /\ UNCHANGED unpagedVars)
       \/ (SetAccess /\ upc = "idle" /\ UNCHANGED unpagedVars)

\* the state after construction, with a configuration that runs every job
\* ------------------------------------------------------------------------
\* redis.py: the info hashes written by __add_infos
\* ------------------------------------------------------------------------

\* RedisDatabase.__SYSTEM_FIELDS: key in the API's info, name in the hash
SYSTEM_FIELDS ==
    << [key |-> "name",            name |-> "name", type |-> "str"],
       [key |-> "security_status", name |-> "sec",  type |-> "float"],
       [key |-> "system_id",       name |-> "id",   type |-> "int"] >>

\* RedisDatabase.__extract_fields: the fields of field_spec that field_dict
\* has, under their stored names
ExtractMapping(field_spec, field_dict) ==
    LET have == {i \in 1..Len(field_spec) :
                    field_spec[i].key \in DOMAIN field_dict}
    IN  [n \in {field_spec[i].name : i \in have} |->
            field_dict[field_spec[CHOOSE i \in have :
                                      field_spec[i].name = n].key]]

InfoIds == {1, 2}

InfoValues == {1, 2}

\* the system infos the remote API gives: the id, and the fields `keys`
\* allows, at one value
SystemInfos(keysets) ==
    {[system_id |-> id] @@ [k \in ks |-> v] :
        id \in InfoIds, ks \in keysets, v \in InfoValues}

\* an info with every field
FullInfos == SystemInfos({{"name", "security_status"}})

\* an info with any of the fields besides the id
PartialInfos == SystemInfos(SUBSET {"name", "security_status"})

\* tasks.py 46-60: the list of infos a task collected (None: a failed fetch)
InfoBatches(infos) ==
    {<< a >> : a \in infos} \cup {<< a, b >> : a \in infos, b \in infos}

IsNone(info) == "none" \in DOMAIN info

\* __add_infos, lines 830-834: one HSET with a mapping per info, queued
\* until `info[id_key]` raises (TypeError for None)
RECURSIVE AddInfosCmds(_)
AddInfosCmds(infos) ==
    IF infos = << >> \/ IsNone(Head(infos)) THEN << >>
    ELSE << Cmd("HSETMAP", Head(infos).system_id,
                ExtractMapping(SYSTEM_FIELDS, Head(infos))) >>
         \o AddInfosCmds(Tail(infos))

\* __add_infos raises before conn.execute()
InfoRaises(infos) == \E i \in 1..Len(infos) : IsNone(infos[i])

\* a worker calls add_system_info(system_infos) (add_region_info and
\* add_location_info are the same __add_infos): the pipeline is filled
AddInfos(infos) ==
    /\ h_pc = "idle"
    /\ \E batch \in InfoBatches(infos) :
          /\ h_args' = batch
          /\ h_pipe' = AddInfosCmds(batch)
          /\ hashes' = Queued(hashes, AddInfosCmds(batch))
          /\ h_pc' = IF InfoRaises(batch) THEN "unwind" ELSE "exec"

\* __add_infos, line 835: conn.execute()
HashExecute ==
    /\ h_pc = "exec"
    /\ hashes' = ApplyAll(hashes, h_pipe)
    /\ h_pipe' = << >>
    /\ h_pc' = "done"
    /\ UNCHANGED h_args

\* the exception leaves the `with` block of __add_infos: the queued
\* commands are dropped
HashDiscard ==
    /\ h_pc = "unwind"
    /\ h_pipe' = << >>
    /\ h_pc' = "raised"
    /\ UNCHANGED <<hashes, h_args>>

\* the call returns to the task, or its exception does
HashReturn ==
    /\ h_pc \in {"done", "raised"}
    /\ h_pc' = "idle"
    /\ h_args' = << >>
    /\ UNCHANGED <<hashes, h_pipe>>

InitHash ==
    /\ hashes = [id \in InfoIds |-> << >>]
    /\ h_pc = "idle"
    /\ h_args = << >>
    /\ h_pipe = << >>

\* the info hashes under the infos of successful fetches, field by field
NextInfos ==
    /\ UNCHANGED exceptHash
    /\ \/ AddInfos(PartialInfos)
       \/ HashExecute
       \/ HashReturn

\* the writes of the reference data when a fetch before them failed
NextFailedWrites ==
    \/ /\ UNCHANGED exceptStore
       /\ \/ SetRegions
          \/ SetRegionsNull
          \/ AddMarketGroupInfo
          \/ AddMarketGroupInfoNull
          \/ PipelineExecute
          \/ PipelineAbort
          \/ PipelineDiscard
          \/ WriteReturn
    \/ /\ UNCHANGED exceptHash
       /\ \/ AddInfos(FullInfos \cup {None})
          \/ HashExecute
          \/ HashDiscard
          \/ HashReturn

\* ------------------------------------------------------------------------
\* tasks.py: UpdateOrdersTask over the cycles of one order page
\* ------------------------------------------------------------------------

\* the response to the request for the page: 304 when the etag sent is the
\* one of the current listing, else 200 with the listing and its etag
\* (the etag of a listing is written as the listing itself, the empty
\* etag "" of a new Page as None)
PageResponse(etag) ==
    IF etag = List(order_listing)
    THEN [status |-> 304, xpages |-> 1, etag |-> etag, body |-> {}]
    ELSE [status |-> 200, xpages |-> 1, etag |-> List(order_listing),
          body |-> order_listing]

\* UpdateOrdersTask.__call__ up to the callback: fetch_type_orders fetches
\* the page (successfully); __fetch_api_page stores the etag, the cache of
\* the Page is rebuilt from a truthy payload, and __update is called with
\* the payload and the cache
CycleFetch ==
    /\ cycle_pc = "idle"
    /\ LET resp == PageResponse(type_page.etag)
           got  == FetchApiPage(resp)
           fwd  == PageCacheReturned(type_page.cache, got.data)
       IN  /\ type_page' = [type_page EXCEPT
                               !.etag = resp.etag,
                               !.cache = PageCacheAfter(type_page.cache, got.data)]
           /\ cycle_calls' = UpdateCalls(got.data, fwd)
    /\ cycle_pc' = "callback"
    /\ elapsed' = 0
    /\ location_infos' = << >>
    /\ location_ids' = << >>
    /\ task_end' = "none"
    /\ UNCHANGED <<order_listing, location_cache, kept, gone, db, locationKeys>>

\* a cycle has ended well (the page fetched, the callback returned): the
\* time of an order that the page does not list starts to count
GoneAfterCycle(id) ==
    IF id \notin order_listing /\ gone[id] = -1 THEN 0 ELSE gone[id]

\* the count after secs more seconds, kept up to the TTL of an order
GoneLater(n, secs) ==
    IF n = -1 THEN -1
    ELSE IF n + secs >= MARKET_ORDER_TTL THEN MARKET_ORDER_TTL
    ELSE n + secs

\* the ids of a store call noted by UpdateCalls (none: the call is not made)
CallIds(calls) == IF calls = << >> THEN {} ELSE calls[1]

\* RegionalAPI.__STATION_MAX
STATION_MAX == 69999999

\* the location of an order (OrderDict)
LocationOf(id) == OrderDict(id, 5).location_id

LocationIds == {LocationOf(id) : id \in OrderIds}

\* a Python tuple (a dictionary is a record, None is None)
Tuple(a, b) == [tuple |-> << a, b >>]

IsTuple(v) == "tuple" \in DOMAIN v

\* the info the remote API gives for the location of an order (the lookup
\* succeeds); fetch_location_info adds is_struct, and for a structure
\* station_id and system_id
LocationInfo(id, is_struct) ==
    [station_id |-> LocationOf(id), system_id |-> SystemOf(id),
     name |-> id, is_struct |-> is_struct]

\* RegionalAPI.fetch_location_info for the location of the order id, with
\* the location cache `cache` (the orders whose location is a key of it):
\* (None, True) for a cached location, else (info, False)
FetchLocationInfo(cache, id) ==
    IF id \in cache THEN Tuple(None, TRUE)
    ELSE Tuple(LocationInfo(id, LocationOf(id) > STATION_MAX), FALSE)

\* __update, lines 226-231: what the loop over the orders of a truthy page
\* appends to location_infos; `if location_info:` holds for every order,
\* a tuple of two elements being truthy
RECURSIVE LocationInfosOf(_, _)
LocationInfosOf(cache, ids) ==
    IF ids = << >> THEN << >>
    ELSE << FetchLocationInfo(cache, Head(ids)) >>
         \o LocationInfosOf(cache \cup {Head(ids)}, Tail(ids))

\* __update: the locations of the orders are looked up (each once: the
\* location cache) and appended to the lists of the task, add_orders writes
\* the orders of the page, then refresh_orders resets the TTL of the cached
\* ids; fetch_type_orders returns
CycleStore ==
    /\ cycle_pc = "callback"
    /\ LET added     == CallIds(cycle_calls.add_orders)
           refreshed == CallIds(cycle_calls.refresh_orders)
       IN  /\ \E vol \in Volumes :
                db' = ApplyAll(
                        ApplyAll(db, AddOrdersCmds(1, [id \in added |-> vol],
                                                   SetToSeq(added))),
                        RefreshOrdersCmds(SetToSeq(refreshed)))
           /\ location_cache' = location_cache \cup added
           /\ location_infos' = location_infos
                                   \o LocationInfosOf(location_cache,
                                                      SetToSeq(added))
           /\ location_ids' = location_ids
                                 \o [i \in 1..Cardinality(added) |->
                                        LocationOf(SetToSeq(added)[i])]
           /\ kept' = kept \cup added
    /\ gone' = [id \in OrderIds |-> GoneAfterCycle(id)]
    /\ cycle_pc' = "after"
    /\ UNCHANGED <<order_listing, type_page, elapsed, cycle_calls,
                   locationKeys, task_end>>

\* __add_infos, line 831: `info[id_key]` raises TypeError for an info that
\* is None and for one that is a tuple (a tuple has no string index)
SubscriptRaises(info) == IsNone(info) \/ IsTuple(info)

\* RedisDatabase.__LOCATION_FIELDS: key in the API's info, name in the hash
LOCATION_FIELDS ==
    << [key |-> "name",            name |-> "name",     type |-> "str"],
       [key |-> "security_status", name |-> "sec",      type |-> "float"],
       [key |-> "is_struct",       name |-> "isstruct", type |-> "int"],
       [key |-> "station_id",      name |-> "id",       type |-> "int"],
       [key |-> "system_id",       name |-> "sid",      type |-> "int"] >>

\* add_location_info, __add_infos with the fields of a location: the hash
\* of every info gets the fields extracted from the info
LocationHashesWith(hs, infos) ==
    [lid \in LocationIds |->
        IF \E i \in 1..Len(infos) : infos[i].station_id = lid
        THEN LET i == CHOOSE j \in 1..Len(infos) :
                         /\ infos[j].station_id = lid
                         /\ \A k \in (j + 1)..Len(infos) :
                                infos[k].station_id # lid
             IN  ExtractMapping(LOCATION_FIELDS, infos[i]) @@ hs[lid]
        ELSE hs[lid]]

\* UpdateOrdersTask.__call__, lines 252-257, after fetch_type_orders has
\* returned: with location ids collected, add_location_info(location_infos)
\* and then add_region_locations (DEL of the list, RPUSH of location_ids);
\* an exception of __add_infos ends the task before anything is written
CycleLocations ==
    /\ cycle_pc = "after"
    /\ IF location_ids = << >>
       THEN /\ task_end' = "returned"
            /\ UNCHANGED locationKeys
       ELSE IF \E i \in 1..Len(location_infos) :
                   SubscriptRaises(location_infos[i])
       THEN /\ task_end' = "raised"
            /\ UNCHANGED locationKeys
       ELSE /\ location_hashes' =
                   LocationHashesWith(location_hashes, location_infos)
            /\ region_locations' = location_ids
            /\ task_end' = "returned"
    /\ cycle_pc' = "idle"
    /\ cycle_calls' = NoCalls
    /\ UNCHANGED <<order_listing, type_page, location_cache, elapsed, kept,
                   gone, db, location_infos, location_ids>>

\* __update: fetch_location_info of an order whose location is not cached
\* sends a request (session.get, api.py 272) that fails on the network: the
\* exception leaves the callback before add_orders, fetch_type_orders and
\* the task (the worker logs it)
CycleLookupRaises ==
    /\ cycle_pc = "callback"
    /\ CallIds(cycle_calls.add_orders) \ location_cache # {}
    /\ cycle_pc' = "idle"
    /\ cycle_calls' = NoCalls
    /\ task_end' = "raised"
    /\ UNCHANGED <<order_listing, type_page, location_cache, elapsed, kept,
                   gone, db, locationVars>>

\* the market moves between two cycles: orders leave the page, others come
ListingChanges ==
    /\ cycle_pc = "idle"
    /\ \E listing \in SUBSET OrderIds :
          /\ listing # order_listing
          /\ order_listing' = listing
          /\ kept' = kept \cap listing
          /\ gone' = [id \in OrderIds |-> IF id \in listing THEN -1
                                           ELSE gone[id]]
    /\ UNCHANGED <<type_page, cycle_pc, cycle_calls, location_cache, elapsed,
                   db, locationVars, task_end>>

\* time passes between two cycles, which stay less than the TTL apart
CycleTick ==
    /\ cycle_pc = "idle"
    /\ elapsed + TickSeconds < MARKET_ORDER_TTL
    /\ elapsed' = elapsed + TickSeconds
    /\ db' = [db EXCEPT !.orders = [id \in OrderIds |->
                                       Aged(db.orders[id], TickSeconds)]]
    /\ gone' = [id \in OrderIds |-> GoneLater(gone[id], TickSeconds)]
    /\ UNCHANGED <<order_listing, type_page, cycle_pc, cycle_calls,
                   location_cache, kept, locationVars, task_end>>

InitIngest ==
    /\ order_listing = {}
    /\ type_page = [Page(1) EXCEPT !.etag = None]
    /\ cycle_pc = "idle"
    /\ cycle_calls = NoCalls
    /\ location_cache = {}
    /\ elapsed = 0
    /\ kept = {}
    /\ gone = [id \in OrderIds |-> -1]
    /\ location_infos = << >>
    /\ location_ids = << >>
    /\ location_hashes = [lid \in LocationIds |-> << >>]
    /\ region_locations = << >>
    /\ task_end = "none"

\* the cycles of one order page: every fetch of the page succeeds
NextIngest ==
    /\ UNCHANGED <<exceptIngest, StoreButDb>>
    /\ \/ CycleFetch
       \/ CycleStore
       \/ CycleLocations
       \/ CycleLookupRaises
       \/ ListingChanges
       \/ CycleTick

Init ==
    /\ InitPool /\ InitFetch /\ InitStore /\ InitPageLock /\ InitStats
    /\ InitUnpaged /\ InitHash /\ InitIngest /\ InitFetchStats
    /\ InitWatcher /\ config = AllJobs

\* the state after construction, with any configuration and with the
\* region list an earlier run of the process left in the store
InitAnyConfig ==
    /\ InitPool /\ InitFetch /\ InitPageLock /\ InitStats
    /\ \E region_ids \in FetchedRegions : InitStoreWith(region_ids)
    /\ InitUnpaged /\ InitHash /\ InitIngest /\ InitFetchStats
    /\ InitWatcher /\ cls = "type"

\* the initial state with the page class fixed
InitTypeClass == Init /\ cls = "type"

\* the initial state with the page class of the structure orders, whose
\* endpoint needs a token
InitStructClass == Init /\ cls = "struct"

SpecPool == InitTypeClass /\ [][NextPool]_vars

\* the pool with threads that keep running: a worker blocked in get() takes
\* a task when there is one, every call of a task ends (it returns or
\* raises), task_done() follows, and join() returns when it can
SpecPoolFair ==
    /\ InitTypeClass
    /\ [][NextPoolFair]_vars
    /\ \A w \in Workers : WF_poolVars(WorkerGet(w))
    /\ \A w \in Workers : WF_poolVars(TaskReturn(w) \/ TaskRaise(w))
    /\ \A w \in Workers : WF_poolVars(TaskDone(w))
    /\ WF_poolVars(JoinReturn)

SpecFetch == InitTypeClass /\ [][NextFetch]_vars

SpecPageCache == InitTypeClass /\ [][NextPageCache]_vars

SpecOrders == InitTypeClass /\ [][NextOrders]_vars

SpecStore == InitTypeClass /\ [][NextStore]_vars

SpecLists == InitTypeClass /\ [][NextLists]_vars

SpecRefresh == InitTypeClass /\ [][NextRefresh]_vars

SpecRegions == InitTypeClass /\ [][NextRegions]_vars

SpecPageLock == InitTypeClass /\ [][NextPageLock]_vars

SpecStats == InitTypeClass /\ [][NextStats]_vars

SpecWatch == InitAnyConfig /\ [][NextWatch]_vars

SpecAuth == InitStructClass /\ [][NextAuth]_vars

SpecFetchAuth == InitStructClass /\ [][NextFetchAuth]_vars

SpecFetchTags == InitStructClass /\ [][NextFetchTags]_vars

SpecFetchCounted == Init /\ [][NextFetchCounted]_vars

SpecQuery == InitTypeClass /\ [][NextQuery]_vars

SpecInfos == InitTypeClass /\ [][NextInfos]_vars

SpecIngest == InitTypeClass /\ [][NextIngest]_vars

SpecFailedWrites == InitTypeClass /\ [][NextFailedWrites]_vars

\* ------------------------------------------------------------------------
\* Properties of the worker pool (checked under SpecPool)
\* ------------------------------------------------------------------------

\* C1: wait() returns only after every task enqueued before or during the
\* wait has finished executing, the tasks enqueued by other tasks while
\* wait() was blocked included: when join() has returned, every task ever put
\* on the queue has run to its end and been marked done, the queue is empty
\* and no worker holds a task.
C1_WaitDrainsAll ==
    spc = "joined" =>
        /\ ran = put
        /\ done = put
        /\ queue = << >>
        /\ \A w \in Workers : wpc[w] = "get" /\ work[w] = NoTask

\* C1 witness: join() has returned after a task enqueued by the scheduler
\* and two tasks enqueued by running tasks while wait() was blocked.
C1_Witness ==
    /\ spc = "joined"
    /\ Cardinality(putInJoin) >= 2
    /\ Cardinality(put) >= 3

\* C8: an exception raised inside a task is contained: no worker thread ever
\* dies, the task that raised is marked done by the worker that ran it (so
\* unfinished_tasks always counts exactly the tasks put and not yet marked
\* done and the queue is not blocked), and wait() does not raise.
C8_TaskExceptionContained ==
    /\ \A w \in Workers : wpc[w] \in {"get", "work", "task_done"}
    /\ \A t \in raised :
          \/ t \in done
          \/ \E w \in Workers : wpc[w] = "task_done" /\ work[w].id = t
    /\ unfinished_tasks = Cardinality(put \ done)
    /\ spc \in {"idle", "join", "joined"}

\* C8 witness: every task put on the queue raised (more tasks than workers,
\* so some worker took a task after one of its tasks had raised), all are
\* marked done and join() has returned.
C8_Witness ==
    /\ spc = "joined"
    /\ raised = put
    /\ done = put
    /\ Cardinality(put) > PoolSize

\* ------------------------------------------------------------------------
\* Properties of the paged fetch client
\* ------------------------------------------------------------------------

\* C3 (as claimed; checked under SpecPageCache): whenever a fetch of page k
\* succeeds and is reported unchanged (304), the cached id list handed to the
\* caller for page k holds exactly the order ids of the most recent changed
\* (200) fetch of page k (no list and the empty list both hold no id).
C3_UnchangedForwardsLastChanged ==
    (/\ delivered.status = 304
     /\ ~lastChanged[delivered.page].none)
        => delivered.cache.ids = lastChanged[delivered.page].ids

\* C4 (as claimed; checked under SpecFetch): a call ends once a page has
\* failed transiently 3 times in a row; no further request follows.
C4_EndsAfterThreeFailures ==
    streak >= ERROR_RETRIES => fpc = "returned"

\* C4 (amended; checked under SpecFetch): a page that fails transiently is
\* requested again up to _ERROR_RETRIES = 3 times, so no page fails more than
\* 4 times in a row within one call, and the call has ended once a page has
\* failed 4 times in a row, with the pair of lists as its result.
C4_EndsAfterThreeRetries ==
    /\ streak <= ERROR_RETRIES + 1
    /\ streak = ERROR_RETRIES + 1 => fpc = "returned" /\ result = "lists"

\* C4 witness: a page has failed 4 times in a row and the call has ended.
C4_Witness ==
    /\ streak = ERROR_RETRIES + 1
    /\ fpc = "returned"
    /\ lastStatus \in ServerStatuses

\* C5 (checked under SpecFetch): once a response has a client-error status
\* (400-499) the call has ended (no further request is made in it) with the
\* abandon result (None, None); a call that ended after any other response
\* (a success, or transient failures that used up the retries) returned the
\* pair of lists.
C5_ClientErrorAbandons ==
    /\ (lastStatus >= 400 /\ lastStatus < 500)
            => fpc = "returned" /\ result = "none"
    /\ (fpc = "returned" /\ ~(lastStatus >= 400 /\ lastStatus < 500))
            => result = "lists"
    /\ fpc = "loop" => result = "pending"

\* C5 witness: a call abandoned by a client error on a page after the first.
C5_Witness ==
    /\ fpc = "returned"
    /\ result = "none"
    /\ lastStatus \in ClientStatuses
    /\ current_page > 1

\* C6 (as claimed; checked under SpecFetch): within one call no page number
\* greater than the page count reported by the first page fetched is
\* requested.
C6_WithinFirstPageCount ==
    firstMax > 0 => maxRequested <= firstMax

\* C6 (amended; checked under SpecFetch): within one call a page after the
\* first is requested only while its number is at most the page count
\* reported by the latest successful response of that call (the response for
\* the page before it); the count is read anew from every response.
C6_WithinLatestPageCount ==
    maxRequested > 1 => maxRequested <= limitAtRequest

\* C6 witness: page 3 has been requested in a call whose first page
\* reported 2 pages.
C6_Witness ==
    /\ firstMax = 2
    /\ maxRequested = 3
    /\ limitAtRequest = 3

\* C27 (checked under SpecFetch): within one call every successful fetch
\* (200 or 304) delivers the page that was requested, whose number is one
\* more than the page delivered before it (the first delivery is page 1), so
\* pages are delivered in strictly increasing order and each at most once; a
\* failed fetch delivers nothing and leaves the page number alone, so the
\* same page is requested again unless the call ends.
C27_PagesInOrder ==
    [][fpc = "loop" =>
         IF lastStatus' \in {200, 304}
         THEN /\ delivered'.page = current_page
              /\ delivered'.page = delivered.page + 1
              /\ delivered'.status = lastStatus'
              /\ fpc' = "loop" => current_page' = current_page + 1
         ELSE /\ delivered' = delivered
              /\ current_page' = current_page
              /\ data_pages' = data_pages
              /\ cache_pages' = cache_pages
              /\ update_calls' = update_calls]_vars

\* C27 witness: page 2 has been delivered to the callback in a call in which
\* a fetch failed and was repeated.
C27_Witness ==
    /\ callback
    /\ delivered.page = 2
    /\ num_errors >= 1
    /\ fpc = "loop"

\* C28 (as claimed; checked under SpecPageCache): after every fetch of a
\* page answered 200 the ids cached on the Page are exactly the order ids of
\* that response, the empty payload included.
C28_CacheIsLastPayload ==
    [][(fpc = "loop" /\ lastStatus' = 200)
         => pages'[current_page].cache.ids = lastChanged'[current_page].ids]_vars

\* C26 (as claimed; checked under SpecFetch): the failure budget is counted
\* per page: a call that gave up on a page after a transient failure did so
\* only after that page had failed at least 3 times in a row, whatever
\* happened on earlier pages.
C26_BudgetPerPage ==
    (fpc = "returned" /\ lastStatus \in ServerStatuses)
        => streak >= ERROR_RETRIES

\* ------------------------------------------------------------------------
\* The store: add_orders, get_orders, refresh_orders, set_regions
\* ------------------------------------------------------------------------

\* what get_orders gives for an order submitted to add_orders(region, ..)
\* and read at once: the fields under their stored names, the expiry time,
\* the age 0 and the region of the query
Submitted(id, vol, region) ==
    LET o == OrderDict(id, vol)
    IN  [sid |-> o.system_id, lid |-> o.location_id, buy |-> o.is_buy_order,
         minvol |-> o.min_volume, totvol |-> o.volume_total,
         remvol |-> o.volume_remain, price |-> o.price, range |-> o.range,
         expiry |-> o.issued + o.duration * 86400, age |-> 0,
         rid |-> region]

\* a get_orders of the region of the add_orders that returned just before it
ReadsAfterAdd ==
    /\ rd_pc = "fetched"
    /\ last_add.op = "add_orders"
    /\ rd_args.region = last_add.region

\* the submitted orders of the queried type
SubmittedOfType ==
    {id \in DOMAIN last_add.batch : TypeOf(id) = rd_args.type}

\* the step of get_orders that reads the keys leaves out every id whose
\* record has expired and notes it for removal; the step that ends the query
\* removes the noted ids from the (region,type) set
ExpiredAreDropped ==
    /\ (rd_pc = "smembers" /\ rd_pc' = "fetched") =>
          \A id \in Range(order_ids) :
              ~db.orders[id].present =>
                  /\ id \notin Range(rd_from')
                  /\ id \in Range(remove_ids')
    /\ (rd_pc = "fetched" /\ rd_pc' = "idle") =>
          db'.sets[<<rd_args.region, rd_args.type>>] \cap Range(remove_ids) = {}

\* C2 as stated: add_orders followed at once by get_orders(region, type)
\* returns exactly the submitted orders of that type, each with age 0; an
\* order whose TTL has run out is not returned and its id leaves the set.
C2_ReturnsExactlySubmitted ==
    /\ [](ReadsAfterAdd =>
            /\ Range(rd_from) = SubmittedOfType
            /\ \A i \in 1..Len(rd_result) : rd_result[i].age = 0)
    /\ [][ExpiredAreDropped]_vars

\* C2 (amended): add_orders followed at once by get_orders(region, type)
\* returns every submitted order of that type, with the submitted fields and
\* age 0, next to the orders of earlier calls that have not expired; an
\* order whose TTL has run out is not returned and its id leaves the set.
C2_ReturnsSubmittedAmongPresent ==
    /\ [](ReadsAfterAdd =>
            \A id \in SubmittedOfType :
                \E i \in 1..Len(rd_from) :
                    /\ rd_from[i] = id
                    /\ rd_result[i] =
                          Submitted(id, last_add.batch[id], rd_args.region))
    /\ [][ExpiredAreDropped]_vars

\* a query right after add_orders of order 1 returns it with age 0 and
\* finds that order 2, added earlier, has expired
C2_Witness ==
    /\ ReadsAfterAdd
    /\ DOMAIN last_add.batch = {1}
    /\ rd_from = << 1 >>
    /\ rd_result[1].age = 0
    /\ remove_ids = << 2 >>

\* C7: refresh_orders(ids) sets the TTL of every listed order that is
\* present to 1200 s and changes nothing else: no payload, no set, no other
\* TTL, and no key appears for an id whose record is absent.
C7_RefreshOnlyResetsTtl ==
    [][(wr_pc = "exec" /\ wr_args.op = "refresh_orders" /\ wr_pc' = "done") =>
          /\ db'.sets = db.sets
          /\ db'.regions = db.regions
          /\ \A id \in OrderIds :
                db'.orders[id] =
                    IF id \in Range(wr_args.batch) /\ db.orders[id].present
                    THEN [db.orders[id] EXCEPT !.ttl = MARKET_ORDER_TTL]
                    ELSE db.orders[id]]_vars

\* a refresh of orders 1 and 2 has run: order 1, whose TTL had gone down,
\* is at 1200 s again; order 2 had expired and has stayed absent
C7_Witness ==
    /\ wr_pc = "done"
    /\ wr_args.op = "refresh_orders"
    /\ wr_args.batch = << 1, 2 >>
    /\ wr_args.old[1].present /\ wr_args.old[1].ttl < MARKET_ORDER_TTL
    /\ db.orders[1].present /\ db.orders[1].ttl = MARKET_ORDER_TTL
    /\ ~wr_args.old[2].present
    /\ ~db.orders[2].present
    /\ 2 \in db.sets[<<1, 34>>]

\* C9: a get_regions that runs during a set_regions whose old and new lists
\* are both non-empty returns the whole old list or the whole new list,
\* never the empty list and never a mix.
C9_ReaderSeesOldOrNew ==
    (/\ rd_pc = "returned"
     /\ rd_seen.during
     /\ rd_seen.old # << >>
     /\ rd_seen.new # << >>)
    => rd_result \in {rd_seen.old, rd_seen.new}

\* a get_regions has read the new list of a set_regions that has not
\* returned yet
C9_Witness ==
    /\ rd_pc = "returned"
    /\ rd_seen.during
    /\ rd_seen.old = << 1 >>
    /\ rd_seen.new = << 2 >>
    /\ rd_result = << 2 >>
    /\ wr_pc = "done"

\* C10: at no point is there an order record written by add_orders without
\* its TTL or without its id in the (region,type) set, and no id enters a
\* set before its record exists.
C10_AddOrdersAtomicToReaders ==
    /\ [](\A id \in OrderIds :
            db.orders[id].present =>
                /\ db.orders[id].ttl > 0
                /\ id \in db.sets[<<RegionOf(id), TypeOf(id)>>])
    /\ [][\A k \in SetKeys : \A id \in db'.sets[k] \ db.sets[k] :
            db'.orders[id].present]_vars

\* C29 (as claimed; checked under SpecStore): while get_orders runs beside
\* add_orders, refresh_orders and the expiry of keys, the id of every order
\* record that is present is in the set of its (region,type), and the SREM
\* of get_orders never removes the id of an order whose record is present
\* when the SREM runs.
C29_ReaderKeepsPresentIds ==
    /\ [](\A id \in OrderIds :
            db.orders[id].present
                => id \in db.sets[<<RegionOf(id), TypeOf(id)>>])
    /\ [][rd_pc = "fetched"
            => \A id \in db.sets[<<rd_args.region, rd_args.type>>]
                        \ db'.sets[<<rd_args.region, rd_args.type>>] :
                  ~db.orders[id].present]_vars

\* C24 (as claimed; checked under SpecIngest): with the page fetched
\* successfully in every cycle and the cycles less than 1200 s apart, an
\* order that has been stored and that the page has listed ever since is
\* present in the store, with its id in the set of its (region,type), and
\* so in the result of get_orders.
C24_ListedOrdersStayStored ==
    \A id \in kept :
        /\ db.orders[id].present
        /\ id \in db.sets[<<1, TypeOf(id)>>]
        /\ id \in Range(DecodeResults(db,
                            SetToSeq(db.sets[<<1, TypeOf(id)>>]),
                            [NoRead EXCEPT !.region = 1,
                                           !.type = TypeOf(id)]).from)

\* C25 (as claimed; checked under SpecInfos): once add_<entity>_info has
\* returned, the hash of every info of the call holds exactly the fields
\* extracted from the info given last for that id: no field of an earlier
\* call that the new info lacks remains.
C25_HashReplaced ==
    h_pc = "done" =>
        \A i \in 1..Len(h_args) :
            (\A j \in (i + 1)..Len(h_args) :
                    h_args[j].system_id # h_args[i].system_id)
                => hashes[h_args[i].system_id]
                       = ExtractMapping(SYSTEM_FIELDS, h_args[i])

\* C30 (checked under SpecFailedWrites): a store write that raises while
\* its commands are being queued (a null info in the batch, a null region
\* list) changes no key: neither the queuing nor the unwinding of the
\* pipeline touches the region list, the group hash and type list or the
\* info hashes.
C30_FailedWriteChangesNothing ==
    [][/\ (wr_pc' = "unwind" \/ wr_pc = "unwind") => db' = db
       /\ (h_pc' = "unwind" \/ h_pc = "unwind") => hashes' = hashes]_vars

\* C30 witness: add_system_info has raised on a null info after it had
\* queued the HSET of an info that differs from the stored hash, and
\* set_regions(None) has raised over a stored region list.
C30_Witness ==
    /\ h_pc = "raised"
    /\ Len(h_args) = 2
    /\ ~IsNone(h_args[1])
    /\ IsNone(h_args[2])
    /\ hashes[h_args[1].system_id] # << >>
    /\ hashes[h_args[1].system_id] # ExtractMapping(SYSTEM_FIELDS, h_args[1])
    /\ wr_pc = "raised"
    /\ wr_args.op = "set_regions"
    /\ db.regions # << >>

\* C21 (checked under SpecWatch): the cache-expiry record of the universe
\* job (and that of the group job) is written at most once after a run of
\* the job; when a polling iteration has finished it has been written
\* exactly once since the job last ran; the record is written only by the
\* polling iteration (never twice for one run: an iteration in which the job
\* has not run since the last write leaves it alone), and the count starts
\* anew only when the job runs.
C21_ExpiryOncePerRun ==
    /\ [](\A j \in {"universe", "group"} :
            /\ expiry_writes[j] <= 1
            /\ mpc = "sleep" => expiry_writes[j] = 1)
    /\ [][/\ expiry_writes'.universe > expiry_writes.universe
               => mpc = "wait" /\ mpc' = "sleep" /\ ~universe_cached
          /\ expiry_writes'.group > expiry_writes.group
               => mpc = "wait" /\ mpc' = "sleep" /\ ~group_cached
          /\ (mpc = "wait" /\ mpc' = "sleep" /\ universe_cached)
               => expiry_writes'.universe = expiry_writes.universe
          /\ (mpc = "wait" /\ mpc' = "sleep" /\ group_cached)
               => expiry_writes'.group = expiry_writes.group
          /\ expiry_writes'.universe < expiry_writes.universe
               => mpc \in {"universe", "universe_wait"}
          /\ expiry_writes'.group < expiry_writes.group
               => mpc \in {"group", "group_wait"}]_vars

\* C21 witness: in the polling loop the universe job has run again while
\* the group job has not: the iteration is about to write the universe
\* record and to leave the group record alone.
C21_Witness ==
    /\ phase = "poll"
    /\ mpc = "wait"
    /\ pool_tasks = << >>
    /\ ~universe_cached
    /\ group_cached
    /\ expiry_writes = [universe |-> 0, group |-> 1]

\* C22 (as claimed; checked under SpecWatch): no exception reaches the
\* scheduler thread from a job, whatever the tasks of the cycle left in the
\* store: watch() never ends by an exception.
C22_SchedulerNeverRaises == mpc # "raised"

\* the state C22 excludes, with its cause: the region list names a region
\* without a stored info (its fetch failed) when the group job builds the
\* search index
C22_MissingRegionInfoRaises ==
    /\ mpc = "raised"
    /\ config.regions
    /\ RegionIndexRaises

\* C23 (checked under SpecWatch): with the regions job enabled the universe
\* job rebuilds the regional clients only in the step in which its wait()
\* returns, when no task (the region-list task and all it enqueued included)
\* is outstanding, and from the stored region list; the set of clients
\* changes in no other step; and every firing of the order job enqueues,
\* behind the outstanding tasks, exactly one order task per region of that
\* set.
C23_RebuildAfterWaitThenOrders ==
    [][/\ (config.regions /\ mpc = "universe" /\ mpc' # mpc)
            => mpc' = "universe_wait"
       /\ (mpc = "universe_wait" /\ mpc' # mpc)
            => /\ pool_tasks = << >>
               /\ DOMAIN region_apis' = Range(db.regions)
       /\ DOMAIN region_apis' # DOMAIN region_apis
            => mpc \in {"universe", "universe_wait"} /\ mpc' = "jobs"
       /\ (mpc = "order_enqueue" /\ mpc' # mpc)
            => LET new == SubSeq(pool_tasks', Len(pool_tasks) + 1,
                                 Len(pool_tasks'))
               IN  /\ SubSeq(pool_tasks', 1, Len(pool_tasks)) = pool_tasks
                   /\ Len(new) = Cardinality(DOMAIN region_apis)
                   /\ \A k \in 1..Len(new) : new[k].kind = "UpdateOrders"
                   /\ \A r \in DOMAIN region_apis :
                         Cardinality({k \in 1..Len(new) :
                                         new[k].region = r}) = 1]_vars

\* C23 witness: the order job has enqueued two order tasks in the polling
\* loop, for the two regions whose list and infos the tasks of the universe
\* job wrote before the clients were rebuilt.
C23_Witness ==
    /\ phase = "poll"
    /\ config.regions
    /\ mpc = "jobs"
    /\ DOMAIN region_apis = {1, 2}
    /\ region_infos = {1, 2}
    /\ Len(pool_tasks) = 2
    /\ \A k \in 1..2 : pool_tasks[k].kind = "UpdateOrders"
                         /\ pool_tasks[k].region = k
                         /\ pool_tasks[k].api = "dict"

\* ------------------------------------------------------------------------
\* The page lock (checked under SpecPageLock)
\* ------------------------------------------------------------------------

\* C11: the page lock is held only during the lookup or creation of the
\* Page: whoever holds it is in the lookup, so no worker makes a request
\* while holding it and no worker waits for the lock during another
\* worker's request.
C11_NoRequestUnderPageLock ==
    /\ order_page_lock # 0 => tpc[order_page_lock] = "lookup"
    /\ \A w \in Workers : tpc[w] = "request" => order_page_lock # w

\* one worker is in its request while another holds the lock for its lookup
C11_Witness ==
    /\ tpc[1] = "request"
    /\ order_page_lock = 2
    /\ tpc[2] = "lookup"

\* ------------------------------------------------------------------------
\* The membership sets (checked under SpecStore)
\* ------------------------------------------------------------------------

\* the ids that a step takes out of the set k
Pruned(k) == db.sets[k] \ db'.sets[k]

\* C12: an id leaves a (region,type) set only in the last step of a
\* get_orders on that (region,type), and only if that query found its
\* record absent; the expiry of a key, add_orders and refresh_orders take no
\* id out of any set.
C12_OnlyQueryPrunes ==
    /\ [][\A k \in SetKeys :
            Pruned(k) # {} =>
                /\ rd_pc = "fetched" /\ rd_pc' = "idle"
                /\ k = <<rd_args.region, rd_args.type>>
                /\ Pruned(k) \subseteq Range(remove_ids)]_vars
    /\ [][(rd_pc = "smembers" /\ rd_pc' = "fetched") =>
            \A id \in Range(remove_ids') : ~db.orders[id].present]_vars

\* order 1 has expired and its id is still in its set, while a refresh of
\* every id has run and order 2 has been added again
C12_Witness ==
    /\ ~db.orders[1].present
    /\ db.orders[2].present
    /\ db.sets[<<1, 34>>] = {1, 2}
    /\ wr_pc = "done"
    /\ wr_args.op = "refresh_orders"
    /\ rd_pc = "fetched"
    /\ remove_ids = << 1 >>

\* ------------------------------------------------------------------------
\* The reference lists (checked under SpecLists)
\* ------------------------------------------------------------------------

\* C13 as stated: once a refresh of a reference list has run, the stored
\* list holds exactly the members the refresh supplied, the empty list
\* included (the region list after set_regions, the type list of a market
\* group after add_market_group_info).
C13_ListsFullyReplaced ==
    wr_pc \in {"done", "raised"} =>
        /\ wr_args.op = "set_regions" =>
              Range(db.regions) = Range(wr_args.batch)
        /\ wr_args.op = "add_market_group_info" =>
              Range(db.group_types) = Range(wr_args.batch)

\* ------------------------------------------------------------------------
\* The order-update task (checked under SpecPageCache)
\* ------------------------------------------------------------------------

\* the callback of an order-update task has been handed a page
PageHandedToTask == callback /\ delivered.page # 0

\* C14 as stated: for each page reported unchanged the task calls
\* refresh_orders exactly once, with the page's cached ids, and add_orders
\* not at all; for each changed page it calls add_orders exactly once, with
\* the page's orders.
C14_OneStoreCallPerPage ==
    PageHandedToTask =>
        /\ delivered.status = 304 =>
              /\ update_calls.refresh_orders =
                    << pages[delivered.page].cache.ids >>
              /\ update_calls.add_orders = << >>
        /\ delivered.status = 200 =>
              update_calls.add_orders = << delivered.data.ids >>

\* a changed page without orders has led to no add_orders call and to a
\* refresh_orders call with the ids of the page's orders before the change
C14_StaleRefresh ==
    /\ PageHandedToTask
    /\ delivered.status = 200
    /\ delivered.data.ids = {}
    /\ update_calls.add_orders = << >>
    /\ update_calls.refresh_orders = << {1} >>

\* ------------------------------------------------------------------------
\* The sum of the workers' stats in wait() (checked under SpecStats)
\* ------------------------------------------------------------------------

\* C15: when wait() returns, every counter of every category of every
\* worker's Stats is zero, and the total handed to the log is the
\* component-wise sum of the workers' Stats at the moment join() found the
\* queue drained.
C15_WaitSumsAndResets ==
    [][(spc = "joined" /\ spc' = "idle") =>
          /\ \A w \in Workers : stats'[w] = ZeroStats
          /\ logged' = drained]_vars

C15_Witness ==
    /\ spc = "idle"
    /\ done # {}
    /\ logged.total[REQUEST] = 1
    /\ logged.total[UPDATE] = 1
    /\ logged.time[UPDATE] = 1
    /\ \A w \in Workers : stats[w] = ZeroStats

\* ------------------------------------------------------------------------
\* The watcher (checked under SpecWatch)
\* ------------------------------------------------------------------------

PageDropped(r) ==
    /\ r \in DOMAIN region_apis
    /\ region_apis[r].page.made
    /\ r \in DOMAIN region_apis' => ~region_apis'[r].page.made

C17_FailedRefreshClearsTokens ==
    /\ (mpc = "order_enqueue" /\ refresh_failed) =>
          /\ global_token = ""
          /\ \A r \in DOMAIN region_apis : region_apis[r].access_token = ""
    /\ ~(last_request.sent /\ last_request.failed /\ last_request.stale)

C17_Witness ==
    /\ mpc = "order_enqueue"
    /\ refresh_failed
    /\ phase = "poll"
    /\ DOMAIN region_apis = {1, 2}
    /\ last_request.sent
    /\ last_request.access_token = "t1"
    /\ \E i \in 1..Len(pool_tasks) : pool_tasks[i].kind = "UpdateOrders"

\* C20: watch() runs the universe job, the group job and the order job once
\* each, in this order, before its loop; in the loop run_pending() is
\* followed by wait(), which returns when the pool is drained, and by the
\* sleep, after which the next turn starts.
C20_StartJobsThenPolling ==
    /\ [](IF phase = "poll"
          THEN job_log = << "universe", "group", "order" >>
          ELSE /\ Len(job_log) <= 3
               /\ job_log = SubSeq(<< "universe", "group", "order" >>,
                                   1, Len(job_log))
               /\ mpc \notin {"run_pending", "wait", "sleep"})
    /\ [][/\ (mpc' = "wait" /\ mpc # "wait") => (mpc = "jobs" /\ todo = << >>)
          /\ (mpc = "wait" /\ mpc' # "wait") => (Drained /\ mpc' = "sleep")
          /\ (mpc = "sleep" /\ mpc' # "sleep") => mpc' = "run_pending"
          /\ (mpc' = "run_pending" /\ mpc # "run_pending") =>
                (mpc = "sleep" \/ (phase = "start" /\ todo = << >>))
          /\ (mpc = "run_pending" /\ mpc' # "run_pending") => mpc' = "jobs"]_vars

C20_Witness ==
    /\ phase = "poll"
    /\ mpc = "sleep"
    /\ job_log = << "universe", "group", "order" >>
    /\ universe_cached
    /\ region_apis # << >>

\* ------------------------------------------------------------------------
\* The fetch client without a token, and the unpaged retries (checked under
\* SpecAuth)
\* ------------------------------------------------------------------------

\* C18 as stated: for an endpoint that needs authentication, with no access
\* token set, the call sends no request and ends with a failure result, not
\* with an exception, on the unpaged path (null) and on the paged path.
C18_NoTokenFailsQuietly ==
    /\ u_blocked => (upc = "returned" /\ u_sent = 0 /\ u_data = None)
    /\ (NeedsAuth /\ ~access_token) => fpc # "raised"

\* the unpaged path of C18: the call without a token has returned null and
\* sent nothing
C18_UnpagedQuiet ==
    u_blocked /\ upc = "returned" /\ u_sent = 0 /\ u_data = None

\* C19 as stated: a call that returned has null for a last response of
\* 400-499, and that one was its only request; one that ended on a status of
\* 500 and above, or on a network failure, has used up its 3 retries, and no
\* call ends with an exception.
C19_RetriesOnlyTransient ==
    /\ upc # "raised"
    /\ upc = "returned" =>
          /\ (u_last >= 400 /\ u_last < 500) => (u_data = None /\ u_sent = 1)
          /\ u_last >= 500 =>
                (u_data = None /\ u_sent = ERROR_RETRIES + 1)

\* a call has returned null after one request that was answered with 500
C19_ServerErrorNotRetried ==
    upc = "returned" /\ u_last = 500 /\ u_sent = 1 /\ u_data = None

\* a call has ended with the exception of its first request
C19_NetworkFailureRaises ==
    upc = "raised" /\ u_sent = 1

\* ------------------------------------------------------------------------
\* Order tasks of one region on the workers (checked under SpecWatch)
\* ------------------------------------------------------------------------

\* the order tasks the workers can be running that hold the same
\* RegionalAPI object: the same region id, both from the dict or both from
\* the dict that was replaced
SameApiRunning ==
    {<< i, j >> \in Running \X Running :
        /\ i < j
        /\ pool_tasks[i].kind = "UpdateOrders"
        /\ pool_tasks[j].kind = "UpdateOrders"
        /\ pool_tasks[i].region = pool_tasks[j].region
        /\ pool_tasks[i].api = pool_tasks[j].api}

\* C31 as stated: no two workers execute order-update tasks that hold the
\* same RegionalAPI at the same time, because the queue is drained by wait()
\* between two firings of the order job.
C31_OneOrderTaskPerRegion == SameApiRunning = {}

\* ------------------------------------------------------------------------
\* Every task runs once (checked under SpecPool)
\* ------------------------------------------------------------------------

\* the places a task is at: the positions of the queue that hold it, the
\* workers whose `work` it is, and the record of the finished tasks
Places(id) ==
    Cardinality({i \in 1..Len(queue) : queue[i].id = id})
    + Cardinality({w \in Workers : work[w].id = id})
    + (IF id \in done THEN 1 ELSE 0)

\* C32: every task put on the queue is executed exactly once, by exactly one
\* worker, also when tasks enqueue tasks and when tasks raise: a task that
\* was put is at exactly one place (waiting in the queue, in the hands of one
\* worker, or finished), a task leaves the queue only into the hands of one
\* worker, and a finished task stays finished.
C32_EachTaskRunsOnce ==
    /\ [](\A id \in TaskIds : Places(id) = IF id \in put THEN 1 ELSE 0)
    /\ [](unfinished_tasks = Cardinality(put \ done))
    /\ [][/\ done \subseteq done'
          /\ \A w \in Workers :
                work'[w] # work[w] =>
                   \/ /\ work[w] = NoTask
                      /\ queue # << >>
                      /\ work'[w] = Head(queue)
                      /\ work'[w].id \notin ran
                   \/ /\ work'[w] = NoTask
                      /\ done' = done \cup {work[w].id}]_vars

C32_Witness ==
    /\ nextId = MaxTasks + 1
    /\ Cardinality(done) = MaxTasks - 1
    /\ raised # {}
    /\ raised \subseteq done
    /\ \E w \in Workers :
          /\ wpc[w] = "task_done"
          /\ work[w].kind = "UpdateRegionSystems"

\* ------------------------------------------------------------------------
\* wait() returns (checked under SpecPoolFair)
\* ------------------------------------------------------------------------

\* a worker thread is idle: blocked in get() on an empty queue
Idle(w) == wpc[w] = "get" /\ queue = << >>

\* C33: with workers that keep running, tasks that all end and a finite
\* fan-out, a wait() that has entered join() gets out of it; and the pool is
\* never stuck: while the unfinished-task count is not zero, or a task is in
\* the queue, some worker is not idle.
C33_WaitReturns ==
    /\ (spc = "join") ~> (spc = "joined")
    /\ []((unfinished_tasks # 0 \/ queue # << >>) =>
             \E w \in Workers : ~Idle(w))

C33_Witness ==
    /\ spc = "joined"
    /\ putInJoin # {}
    /\ raised # {}
    /\ done = put
    /\ nextId = MaxTasks + 1

\* ------------------------------------------------------------------------
\* Orders that left the page (checked under SpecIngest)
\* ------------------------------------------------------------------------

\* C34 as stated: an order that the page does not list any more is not
\* refreshed by the cycles: 1200 s after the first cycle that ended well
\* with its page fetched without it, its record has expired and get_orders
\* does not return it.
C34_UnlistedOrdersExpire ==
    \A id \in OrderIds :
        gone[id] >= MARKET_ORDER_TTL =>
            /\ ~db.orders[id].present
            /\ id \notin Range(DecodeResults(db,
                                 SetToSeq(db.sets[<<1, TypeOf(id)>>]),
                                 [NoRead EXCEPT !.region = 1,
                                                !.type = TypeOf(id)]).from)

\* ------------------------------------------------------------------------
\* The validation tag of a Page (checked under SpecFetchTags)
\* ------------------------------------------------------------------------

GivenUp == fpc = "returned" /\ lastStatus >= 400

\* C36: when a paged fetch with a callback is given up on page k, the
\* callback has been called for the pages 1..k-1 and for no other page: the
\* store calls it made for them stay made (no step takes a page back or
\* changes the calls noted for the last page once the call has ended), and
\* it makes none for page k or a later page.
C36_GivenUpKeepsEarlierPages ==
    /\ []((callback /\ GivenUp) => streamed = 1..(current_page - 1))
    /\ [][/\ (fpc = "loop" /\ fpc' = "loop") => streamed \subseteq streamed'
          /\ (fpc = "loop" /\ fpc' = "returned" /\ lastStatus' >= 400) =>
                (streamed' = streamed /\ update_calls' = update_calls)
          /\ (fpc = "returned" /\ fpc' = "returned") =>
                (streamed' = streamed /\ update_calls' = update_calls)]_vars

C36_Witness ==
    /\ callback
    /\ GivenUp
    /\ current_page = 3
    /\ streamed = {1, 2}
    /\ update_calls.add_orders # << >>

\* ------------------------------------------------------------------------
\* No stat update is lost (checked under SpecStats)
\* ------------------------------------------------------------------------

\* the updates that no wait() has reported yet: those in the total of a
\* wait() that is summing, and those in the workers' Stats
Unreported ==
    StatsIAdd(IF spc = "joined" THEN total ELSE ZeroStats,
              SumOfWorkers(PoolSize))

\* C37: wait() sums and resets the workers' Stats only while no worker has
\* a task (every worker is in get() and the queue is empty); the Stats of a
\* worker is changed only by an update of the task this worker runs, or by
\* the reset of wait(); and the totals that the wait() calls have handed to
\* the log, together with what is not reported yet, add up to exactly the
\* updates the tasks made, so that after a wait() that found updates
\* nothing is left unreported.
C37_NoStatUpdateLost ==
    /\ [](spc = "joined" =>
             /\ queue = << >>
             /\ \A w \in Workers : wpc[w] = "get" /\ work[w] = NoTask)
    /\ [](recorded = StatsIAdd(reported, Unreported))
    /\ [](spc = "idle" /\ queue = << >> /\ (\A w \in Workers : wpc[w] = "get")
             /\ (\A w \in Workers : stats[w] = ZeroStats)
          => recorded = reported)
    /\ [][\A w \in Workers :
             stats'[w] # stats[w] =>
                \/ /\ wpc[w] = "work"
                   /\ wpc'[w] = "task_done"
                   /\ \E u \in StatUpdates : stats'[w] = StatsUpdate(stats[w], u)
                \/ /\ spc = "joined"
                   /\ sum_index' = w
                   /\ stats'[w] = ZeroStats]_vars

C37_Witness ==
    /\ spc = "idle"
    /\ reported.total[REQUEST] = 1
    /\ reported.total[UPDATE] = 1
    /\ logged.total[REQUEST] = 0
    /\ logged.total[UPDATE] = 1
    /\ recorded.total[UPDATE] = 2
    /\ \E w \in Workers : stats[w].total[UPDATE] = 1

\* ------------------------------------------------------------------------
\* The request counters of a paged fetch (checked under SpecFetchCounted)
\* ------------------------------------------------------------------------

\* C38 as stated: every request of a call, a skipped one included, adds 1
\* to the REQUEST total and one outcome at most (failure or changed), so
\* that failure + changed <= total; and a call that has ended, whatever its
\* outcome, has recorded its elapsed time once.
C38_RequestsCountedAndTimed ==
    /\ req_stats.failure + req_stats.changed <= req_stats.total
    /\ fpc \in {"returned", "raised"} => req_stats.timed = 1

\* the part of C38 that holds: each request adds 1 to the total and exactly
\* the outcome of its response
C38_RequestsCounted ==
    /\ req_stats.failure + req_stats.changed <= req_stats.total
    /\ req_stats.timed <= 1
    /\ (fpc = "returned" /\ result = "lists") => req_stats.timed = 1

\* a call has ended on a client error without recording its time
C38_ClientErrorUntimed ==
    /\ fpc = "returned"
    /\ result = "none"
    /\ req_stats.total >= 1
    /\ req_stats.timed = 0

\* ------------------------------------------------------------------------
\* get_orders with a system filter (checked under SpecQuery)
\* ------------------------------------------------------------------------

\* the ids of the (region,type) set, as the query read it, whose record is
\* in the store when the query reads the records
PresentMembers == {id \in Range(order_ids) : db.orders[id].present}

\* C39: get_orders(region, type, system) returns exactly the orders of the
\* (region,type) set whose record is present and whose system is the one
\* asked for (every present one without a filter), each once, with the
\* stored system, the region asked for and the age 1200 - TTL, which lies in
\* 0..1200; it removes from the set exactly the ids whose record is absent,
\* whatever the filter, so the id of a present order that the filter leaves
\* out stays in the set.
C39_QueryFiltersAndPrunes ==
    [][/\ (rd_pc = "smembers" /\ rd_pc' = "fetched") =>
             /\ Range(rd_from') =
                   {id \in PresentMembers :
                       rd_args.system = 0 \/ SystemOf(id) = rd_args.system}
             /\ Len(rd_from') = Cardinality(Range(rd_from'))
             /\ Len(rd_result') = Len(rd_from')
             /\ \A i \in 1..Len(rd_from') :
                   /\ rd_result'[i].sid = SystemOf(rd_from'[i])
                   /\ rd_result'[i].rid = rd_args.region
                   /\ rd_result'[i].age =
                         MARKET_ORDER_TTL - db.orders[rd_from'[i]].ttl
                   /\ rd_result'[i].age \in 0..MARKET_ORDER_TTL
             /\ Range(remove_ids') = Range(order_ids) \ PresentMembers
       /\ (rd_pc = "fetched" /\ rd_pc' = "idle") =>
             /\ db'.sets = [db.sets EXCEPT
                              ![<<rd_args.region, rd_args.type>>] =
                                   @ \ Range(remove_ids)]
             /\ db'.orders = db.orders]_vars

\* a query for system 1 has returned order 2 at age 600 and has left out
\* order 1, of system 2, whose record is present and whose id is not noted
\* for removal
C39_Witness ==
    /\ rd_pc = "fetched"
    /\ rd_args.system = 1
    /\ rd_from = << 2 >>
    /\ rd_result[1].age = 600
    /\ db.orders[1].present
    /\ 1 \in db.sets[<<rd_args.region, rd_args.type>>]
    /\ remove_ids = << >>

\* ------------------------------------------------------------------------
\* The locations an order task stores after its fetch (checked under
\* SpecIngest)
\* ------------------------------------------------------------------------

\* the orders of the changed page the callback of the running task got
ChangedPageOrders == CallIds(cycle_calls.add_orders)

\* C40 (as claimed): an order task whose fetch handed a changed page to the
\* callback ends without raising; when it ends, the hash of the location of
\* every order of the page is written and the list of the location ids of
\* the region holds the location ids of the orders of the page.
C40_ChangedPageStoresLocations ==
    [][(cycle_pc = "after" /\ cycle_pc' = "idle" /\ ChangedPageOrders # {}) =>
          /\ task_end' = "returned"
          /\ \A id \in ChangedPageOrders :
                location_hashes'[LocationOf(id)] # << >>
          /\ Range(region_locations') =
                {LocationOf(id) : id \in ChangedPageOrders}]_vars

\* what the task does instead: with a changed page it raises after its
\* fetch, and no task ever writes a location hash or the location list
C40_ChangedPageTaskRaises ==
    /\ [][(cycle_pc = "after" /\ cycle_pc' = "idle"
             /\ ChangedPageOrders # {}) => task_end' = "raised"]_vars
    /\ [](/\ region_locations = << >>
          /\ \A lid \in LocationIds : location_hashes[lid] = << >>)

\* a task has raised after its callback stored the orders of a changed page
C40_RaisedAfterStore ==
    /\ cycle_pc = "idle"
    /\ task_end = "raised"
    /\ location_ids # << >>
    /\ \E id \in OrderIds :
          /\ LocationOf(id) \in Range(location_ids)
          /\ db.orders[id].present

====
